---- MODULE Spec2Model ----
(***************************************************************************)
(* A model of the code-analysis subsystem of dini-test-poc:                *)
(*   src/tools/code_analyser/code_analysis_tools.py  (parsers, FileWatcher,*)
(*       CodeFileHandler, CodeIndexer)                                     *)
(*   src/tools/code_analyser/ai_agent_tools.py       (symbol-graph queries)*)
(*                                                                         *)
(* Python dicts keep insertion order, so a dict is a sequence of           *)
(* [k, v] entries; Python strings are TLA+ strings and symbol ids are      *)
(* built by concatenation exactly as _create_symbol_id builds them.        *)
(***************************************************************************)
EXTENDS Integers, Sequences, FiniteSets, TLC

(***************************************************************************)
(* Bounds of the model.                                                    *)
(***************************************************************************)
\* number of file-system changes the environment makes in one behaviour
MaxDiskChanges == 2
\* methods per generated Java class and calls per generated method body
MaxMethods == 2
MaxCalls == 2

(***************************************************************************)
(* Python values.                                                          *)
(***************************************************************************)
\* Python None where a string is expected (falsy, like the empty string)
None == ""

Max(a, b) == IF a > b THEN a ELSE b

\* s.endswith(t)
EndsWith(s, t) ==
    /\ Len(t) <= Len(s)
    /\ SubSeq(s, Len(s) - Len(t) + 1, Len(s)) = t

\* s.startswith(t)
StartsWith(s, t) ==
    /\ Len(t) <= Len(s)
    /\ SubSeq(s, 1, Len(t)) = t

\* t in s   (substring test)
StrContains(s, t) ==
    \E i \in 1..(Len(s) - Len(t) + 1) : SubSeq(s, i, i + Len(t) - 1) = t

\* x in list
InList(x, list) == \E i \in DOMAIN list : list[i] = x

\* list.remove(x): removes the first occurrence only
ListRemove(list, x) ==
    LET i == CHOOSE j \in DOMAIN list :
                 /\ list[j] = x
                 /\ \A m \in 1..(j - 1) : list[m] # x
    IN  SubSeq(list, 1, i - 1) \o SubSeq(list, i + 1, Len(list))

ListSet(list) == {list[i] : i \in DOMAIN list}

(***************************************************************************)
(* Insertion-ordered dicts: sequences of [k |-> key, v |-> value].         *)
(***************************************************************************)
EmptyDict == <<>>

DKeys(d) == {d[i].k : i \in DOMAIN d}

DHas(d, key) == \E i \in DOMAIN d : d[i].k = key

DIndex(d, key) == CHOOSE i \in DOMAIN d : d[i].k = key

DGet(d, key) == d[DIndex(d, key)].v

\* d[key] = val : an existing key keeps its position, a new key goes last
DPut(d, key, val) ==
    IF DHas(d, key)
    THEN [d EXCEPT ![DIndex(d, key)] = [k |-> key, v |-> val]]
    ELSE Append(d, [k |-> key, v |-> val])

\* del d[key]
DDel(d, key) == SelectSeq(d, LAMBDA e : e.k # key)

RECURSIVE DUpdateFrom(_, _, _)
DUpdateFrom(d, e, i) ==
    IF i > Len(e) THEN d
    ELSE DUpdateFrom(DPut(d, e[i].k, e[i].v), e, i + 1)

\* d.update(e)
DUpdate(d, e) == DUpdateFrom(d, e, 1)

(***************************************************************************)
(* Syntax trees as tree-sitter hands them to the parsers: a node has a     *)
(* type, the source text it spans, the line it starts on and children.    *)
(***************************************************************************)
Node(type, text, line, children) ==
    [type |-> type, text |-> text, line |-> line, children |-> children]

Leaf(type, text, line) == Node(type, text, line, <<>>)

Ident(name, line) == Leaf("identifier", name, line)

\* name();
JCall(name, line) ==
    Node("expression_statement", name \o "();", line,
         <<Node("method_invocation", name \o "()", line,
                <<Ident(name, line), Leaf("argument_list", "()", line)>>)>>)

\* void name(){ body }
JMethod(name, body, line) ==
    Node("method_declaration", "void " \o name \o "(){", line,
         <<Leaf("void_type", "void", line), Ident(name, line),
           Leaf("formal_parameters", "()", line),
           Node("block", "{}", line, body)>>)

\* class name { members }
JClass(name, members, line) ==
    Node("class_declaration", "class " \o name \o " {", line,
         <<Leaf("class", "class", line), Ident(name, line),
           Node("class_body", "{}", line, members)>>)

JProgram(decls) == Node("program", "", 1, decls)

\* an expression nested deeper than the interpreter's recursion limit:
\* _traverse_node, recursing into it, raises RecursionError
TooDeep(line) == Leaf("too_deep", "((((", line)

\* a decodable source text: its syntax tree and len(content.splitlines())
Text(tree, lines) == [readable |-> TRUE, tree |-> tree, lines |-> lines]

\* a file whose bytes are not UTF-8: open(...).read() raises
Undecodable == [readable |-> FALSE, tree |-> JProgram(<<>>), lines |-> 0]

(***************************************************************************)
(* ParsingStrategy and JavaParsingStrategy.                                *)
(***************************************************************************)
\* f"{file_path}::{symbol_name}"
CreateSymbolId(file_path, symbol_name) == file_path \o "::" \o symbol_name

\* SymbolInfo(type, file, line, signature), called_by defaulting to []
SymbolInfo(type, file, line, signature) ==
    [type |-> type, file |-> file, line |-> line,
     signature |-> signature, called_by |-> <<>>]

\* an Optional[List[str]] value: None, or a list
NoList == [is_none |-> TRUE, list |-> <<>>]
SomeList(list) == [is_none |-> FALSE, list |-> list]

\* FileInfo as asdict() stores it; exports and package default to None
FileInfo(language, line_count, functions, classes, imports, exports, package) ==
    [language |-> language, line_count |-> line_count,
     symbols |-> [functions |-> functions, classes |-> classes],
     imports |-> imports, exports |-> exports, package |-> package]

\* the accumulators one traversal threads through its recursion
NewTraversal ==
    [symbols |-> EmptyDict, functions |-> <<>>, classes |-> <<>>,
     imports |-> <<>>, exports |-> <<>>, symbol_lookup |-> EmptyDict,
     raised |-> FALSE]

RECURSIVE FirstChildText(_, _, _)
FirstChildText(children, type, i) ==
    IF i > Len(children) THEN None
    ELSE IF children[i].type = type THEN children[i].text
    ELSE FirstChildText(children, type, i + 1)

\* the text of the first child of type 'identifier', else None
GetIdentifier(node) == FirstChildText(node.children, "identifier", 1)

\* content[start:end].split('\n')[0].strip(); node texts hold that line
GetSignature(node) == node.text

\* the first identifier of a field_access that does not start it
RECURSIVE FieldAccessName(_, _)
FieldAccessName(subchildren, j) ==
    IF j > Len(subchildren) THEN None
    ELSE IF subchildren[j].type = "identifier" /\ j > 1
         THEN subchildren[j].text
    ELSE FieldAccessName(subchildren, j + 1)

RECURSIVE CalledMethodFrom(_, _)
CalledMethodFrom(children, i) ==
    IF i > Len(children) THEN None
    ELSE IF children[i].type = "field_access"
              /\ FieldAccessName(children[i].children, 1) # None
         THEN FieldAccessName(children[i].children, 1)
    ELSE IF children[i].type = "identifier" THEN children[i].text
    ELSE CalledMethodFrom(children, i + 1)

\* GetCalledMethod for a parser that never finds the called name
GetCalledMethodNone(node) == None

GetCalledMethod(node) == CalledMethodFrom(node.children, 1)

\* s.replace(t, "")
RECURSIVE StrRemove(_, _)
StrRemove(s, t) ==
    IF Len(s) < Len(t) \/ Len(s) = 0 THEN s
    ELSE IF StartsWith(s, t)
         THEN StrRemove(SubSeq(s, Len(t) + 1, Len(s)), t)
    ELSE SubSeq(s, 1, 1) \o StrRemove(SubSeq(s, 2, Len(s)), t)

\* s.strip() for blanks
RECURSIVE StrStrip(_)
StrStrip(s) ==
    IF Len(s) = 0 THEN s
    ELSE IF SubSeq(s, 1, 1) = " " THEN StrStrip(SubSeq(s, 2, Len(s)))
    ELSE IF SubSeq(s, Len(s), Len(s)) = " "
         THEN StrStrip(SubSeq(s, 1, Len(s) - 1))
    ELSE s

\* AddCaller with line 222 left out: no caller is ever recorded
AddCallerNever(symbols, symbol_id, caller) == symbols

\* AddCaller without the test of line 221: one entry per call site
AddCallerEachSite(symbols, symbol_id, caller) ==
    DPut(symbols, symbol_id,
         [DGet(symbols, symbol_id) EXCEPT !.called_by = Append(@, caller)])

\* the call edge: current_method joins called_by of the resolved symbol once
AddCaller(symbols, symbol_id, caller) ==
    LET info == DGet(symbols, symbol_id)
    IN  IF InList(caller, info.called_by) THEN symbols
        ELSE DPut(symbols, symbol_id,
                  [info EXCEPT !.called_by = Append(@, caller)])

RECURSIVE JavaTraverseNode(_, _, _, _, _)
RECURSIVE JavaTraverseChildren(_, _, _, _, _, _)

JavaTraverseNode(node, file_path, st, current_class, current_method) ==
    LET name == GetIdentifier(node)
    IN
    IF node.type = "too_deep" THEN [st EXCEPT !.raised = TRUE]
    ELSE IF node.type = "class_declaration" /\ name # None
    THEN LET symbol_id == CreateSymbolId(file_path, name)
             st1 == [st EXCEPT
                       !.symbols = DPut(@, symbol_id,
                           SymbolInfo("class", file_path, node.line, None)),
                       !.symbol_lookup = DPut(@, name, symbol_id),
                       !.classes = Append(@, name)]
         IN  JavaTraverseChildren(node.children, 1, file_path, st1,
                                  name, current_method)
    ELSE IF node.type = "method_declaration" /\ name # None
    THEN LET full_name == IF current_class # None
                          THEN current_class \o "." \o name ELSE name
             symbol_id == CreateSymbolId(file_path, full_name)
             st1 == [st EXCEPT
                       !.symbols = DPut(@, symbol_id,
                           SymbolInfo("method", file_path, node.line,
                                      GetSignature(node))),
                       !.symbol_lookup =
                           DPut(DPut(@, full_name, symbol_id), name, symbol_id),
                       !.functions = Append(@, full_name)]
         IN  JavaTraverseChildren(node.children, 1, file_path, st1,
                                  current_class, symbol_id)
    ELSE LET called_method == GetCalledMethod(node)
             import_path ==
                 StrStrip(StrRemove(StrRemove(node.text, "import"), ";"))
             st1 ==
                 IF node.type = "method_invocation" /\ current_method # None
                 THEN IF called_method # None
                         /\ DHas(st.symbol_lookup, called_method)
                      THEN [st EXCEPT !.symbols =
                              AddCaller(@, DGet(st.symbol_lookup, called_method),
                                        current_method)]
                      ELSE st
                 ELSE IF node.type = "import_declaration"
                 THEN IF import_path # ""
                      THEN [st EXCEPT !.imports = Append(@, import_path)]
                      ELSE st
                 ELSE st
         IN  JavaTraverseChildren(node.children, 1, file_path, st1,
                                  current_class, current_method)

\* for child in node.children: self._traverse_node(child, ...); an
\* exception raised under a child ends the loop with what was collected
JavaTraverseChildren(children, i, file_path, st, current_class, current_method) ==
    IF i > Len(children) THEN st
    ELSE LET after == JavaTraverseNode(children[i], file_path, st,
                                       current_class, current_method)
         IN  IF after.raised THEN after
             ELSE JavaTraverseChildren(children, i + 1, file_path, after,
                                       current_class, current_method)

\* the scoped_identifier of the first package_declaration under the root
RECURSIVE ExtractPackage(_, _)
ExtractPackage(children, i) ==
    IF i > Len(children) THEN None
    ELSE IF children[i].type = "package_declaration"
         THEN FirstChildText(children[i].children, "scoped_identifier", 1)
    ELSE ExtractPackage(children, i + 1)

\* JavaParsingStrategy.parse_file: (symbols, file_info); the traversal runs
\* inside try/except, so an exception it raises is logged and the symbols
\* collected before it are returned
JavaParseFile(file_path, content) ==
    LET st == JavaTraverseNode(content.tree, file_path, NewTraversal, None, None)
    IN  [raised |-> FALSE,
         symbols |-> st.symbols,
         file_info |-> FileInfo("java", content.lines, st.functions,
                                st.classes, st.imports, NoList,
                                ExtractPackage(content.tree.children, 1))]

(***************************************************************************)
(* TypeScriptParsingStrategy (it also parses .js and .jsx files).          *)
(***************************************************************************)
\* name();
TCall(name, line) ==
    Node("expression_statement", name \o "();", line,
         <<Node("call_expression", name \o "()", line,
                <<Ident(name, line), Leaf("arguments", "()", line)>>)>>)

\* function name(){ body }
TFunction(name, body, line) ==
    Node("function_declaration", "function " \o name \o "(){", line,
         <<Leaf("function", "function", line), Ident(name, line),
           Leaf("formal_parameters", "()", line),
           Node("statement_block", "{}", line, body)>>)

\* the called name: an identifier, or the property of a member expression
GetCalledFunction(node) ==
    IF Len(node.children) = 0 THEN None
    ELSE LET func_node == node.children[1]
         IN  IF func_node.type = "identifier" THEN func_node.text
             ELSE IF func_node.type = "member_expression"
                  THEN FirstChildText(func_node.children,
                                      "property_identifier", 1)
             ELSE None

RECURSIVE TypeScriptTraverseNode(_, _, _, _, _)
RECURSIVE TypeScriptTraverseChildren(_, _, _, _, _, _)

TypeScriptTraverseNode(node, file_path, st, current_function, current_class) ==
    LET name == GetIdentifier(node)
        type_name == FirstChildText(node.children, "type_identifier", 1)
        method_name == FirstChildText(node.children, "property_identifier", 1)
    IN
    IF node.type = "too_deep" THEN [st EXCEPT !.raised = TRUE]
    ELSE IF node.type = "function_declaration" /\ name # None
    THEN LET symbol_id == CreateSymbolId(file_path, name)
             st1 == [st EXCEPT
                       !.symbols = DPut(@, symbol_id,
                           SymbolInfo("function", file_path, node.line,
                                      GetSignature(node))),
                       !.symbol_lookup = DPut(@, name, symbol_id),
                       !.functions = Append(@, name)]
         IN  TypeScriptTraverseChildren(node.children, 1, file_path, st1,
                                        file_path \o "::" \o name, current_class)
    ELSE IF node.type = "class_declaration" /\ name # None
    THEN LET symbol_id == CreateSymbolId(file_path, name)
             st1 == [st EXCEPT
                       !.symbols = DPut(@, symbol_id,
                           SymbolInfo("class", file_path, node.line, None)),
                       !.symbol_lookup = DPut(@, name, symbol_id),
                       !.classes = Append(@, name)]
         IN  TypeScriptTraverseChildren(node.children, 1, file_path, st1,
                                        current_function, name)
    ELSE IF node.type = "interface_declaration" /\ type_name # None
    THEN LET symbol_id == CreateSymbolId(file_path, type_name)
             st1 == [st EXCEPT
                       !.symbols = DPut(@, symbol_id,
                           SymbolInfo("interface", file_path, node.line, None)),
                       !.symbol_lookup = DPut(@, type_name, symbol_id),
                       !.classes = Append(@, type_name)]
         IN  TypeScriptTraverseChildren(node.children, 1, file_path, st1,
                                        current_function, type_name)
    ELSE IF node.type = "method_definition"
            /\ method_name # None /\ current_class # None
    THEN LET full_name == current_class \o "." \o method_name
             symbol_id == CreateSymbolId(file_path, full_name)
             st1 == [st EXCEPT
                       !.symbols = DPut(@, symbol_id,
                           SymbolInfo("method", file_path, node.line,
                                      GetSignature(node))),
                       !.symbol_lookup =
                           DPut(DPut(@, full_name, symbol_id),
                                method_name, symbol_id),
                       !.functions = Append(@, full_name)]
         IN  TypeScriptTraverseChildren(node.children, 1, file_path, st1,
                                        file_path \o "::" \o full_name,
                                        current_class)
    ELSE LET called_function == GetCalledFunction(node)
             st1 ==
                 IF node.type \in {"function_declaration", "class_declaration",
                                   "interface_declaration", "method_definition"}
                 THEN st
                 ELSE IF node.type = "call_expression" /\ current_function # None
                 THEN IF called_function # None
                         /\ DHas(st.symbol_lookup, called_function)
                      THEN [st EXCEPT !.symbols =
                              AddCaller(@, DGet(st.symbol_lookup, called_function),
                                        current_function)]
                      ELSE st
                 ELSE IF node.type = "import_statement"
                 THEN [st EXCEPT !.imports = Append(@, node.text)]
                 ELSE IF node.type \in {"export_statement",
                                        "export_default_declaration"}
                 THEN [st EXCEPT !.exports = Append(@, node.text)]
                 ELSE st
         IN  TypeScriptTraverseChildren(node.children, 1, file_path, st1,
                                        current_function, current_class)

TypeScriptTraverseChildren(children, i, file_path, st, current_function, current_class) ==
    IF i > Len(children) THEN st
    ELSE LET after == TypeScriptTraverseNode(children[i], file_path, st,
                                             current_function, current_class)
         IN  IF after.raised THEN after
             ELSE TypeScriptTraverseChildren(children, i + 1, file_path,
                                             after, current_function,
                                             current_class)

\* TypeScriptParsingStrategy.parse_file: (symbols, file_info); nothing here
\* catches an exception of the traversal, it reaches the caller
TypeScriptParseFile(file_path, content) ==
    LET st == TypeScriptTraverseNode(content.tree, file_path, NewTraversal,
                                     None, None)
    IN  [raised |-> st.raised,
         symbols |-> st.symbols,
         file_info |-> FileInfo("typescript", content.lines, st.functions,
                                st.classes, st.imports, SomeList(st.exports),
                                None)]

(***************************************************************************)
(* Symbol-graph queries of ai_agent_tools.py over index_data["symbols"].   *)
(***************************************************************************)
\* symbol_id.split("::")[-1]: what follows the last "::"
RECURSIVE LastPart(_, _)
LastPart(symbol_id, i) ==
    IF i < 1 THEN symbol_id
    ELSE IF SubSeq(symbol_id, i, i + 1) = "::"
         THEN SubSeq(symbol_id, i + 2, Len(symbol_id))
    ELSE LastPart(symbol_id, i - 1)

SymbolName(symbol_id) == LastPart(symbol_id, Len(symbol_id) - 1)

\* the test find_functions_calling applies to each symbol name
CallTargetMatches(name, function_name) ==
    \/ name = function_name
    \/ EndsWith(name, "." \o function_name)
    \/ StrContains(name, function_name)

\* the first symbol, in dict order, that matches; None when there is none
RECURSIVE FindTarget(_, _, _)
FindTarget(symbols, function_name, i) ==
    IF i > Len(symbols) THEN None
    ELSE IF CallTargetMatches(SymbolName(symbols[i].k), function_name)
         THEN symbols[i].k
    ELSE FindTarget(symbols, function_name, i + 1)

\* dict(symbols[caller_id]) with caller_info["symbol_id"] = caller_id
CallerInfo(symbols, caller_id) ==
    [symbol_id |-> caller_id, info |-> DGet(symbols, caller_id)]

\* find_functions_calling(function_name) on a built index
FindFunctionsCalling(symbols, function_name) ==
    LET target_symbol_id == FindTarget(symbols, function_name, 1)
        called_by == DGet(symbols, target_symbol_id).called_by
        callers == [i \in DOMAIN SelectSeq(called_by,
                                           LAMBDA c : DHas(symbols, c)) |->
                      CallerInfo(symbols,
                          SelectSeq(called_by, LAMBDA c : DHas(symbols, c))[i])]
    IN  IF target_symbol_id = None
        THEN [success |-> TRUE, function_name |-> function_name,
              callers |-> <<>>, message |-> "Function not found in index"]
        ELSE [success |-> TRUE, function_name |-> function_name,
              target_symbol_id |-> target_symbol_id,
              callers |-> callers, total_callers |-> Len(callers)]

(***************************************************************************)
(* Paths: os.path and pathlib as the indexer and the watcher use them.     *)
(***************************************************************************)
\* os.path.join(a, b)
JoinPath(a, b) == a \o "/" \o b

\* os.path.relpath(path, base) for a path under base
RelPath(path, base) == SubSeq(path, Len(base) + 2, Len(path))

\* path.split(os.sep)
RECURSIVE PathParts(_)
PathParts(path) ==
    IF ~StrContains(path, "/") THEN <<path>>
    ELSE LET i == CHOOSE j \in 1..Len(path) :
                      /\ SubSeq(path, j, j) = "/"
                      /\ \A m \in 1..(j - 1) : SubSeq(path, m, m) # "/"
         IN  <<SubSeq(path, 1, i - 1)>>
                 \o PathParts(SubSeq(path, i + 1, Len(path)))

\* os.path.basename(path)
Basename(path) == PathParts(path)[Len(PathParts(path))]

\* the directories a path lies in, outermost first
DirParts(path) == SubSeq(PathParts(path), 1, Len(PathParts(path)) - 1)

\* pathlib's Path(name).suffix: from the last dot, unless that dot leads
\* or ends the name
Suffix(name) ==
    LET dots == {i \in 1..Len(name) : SubSeq(name, i, i) = "."}
        last == CHOOSE i \in dots : \A j \in dots : j <= i
    IN  IF dots = {} THEN ""
        ELSE IF last = 1 \/ last = Len(name) THEN ""
        ELSE SubSeq(name, last, Len(name))

\* _is_code_file: the name ends with a supported extension
CodeExtensions == {".java", ".ts", ".tsx", ".js", ".jsx"}

IsCodeFile(filename) == \E ext \in CodeExtensions : EndsWith(filename, ext)

\* the directories _build_index prunes from os.walk
PrunedDirNames == {"node_modules", "target", "build", "dist"}

\* os.walk below base_path reaches rel_path: none of its directories is pruned
\* WalkReaches with the second conjunct of line 729 left out
WalkReachesPastNames(rel_path) ==
    \A i \in DOMAIN DirParts(rel_path) :
        ~StartsWith(DirParts(rel_path)[i], ".")

WalkReaches(rel_path) ==
    \A i \in DOMAIN DirParts(rel_path) :
        /\ ~StartsWith(DirParts(rel_path)[i], ".")
        /\ DirParts(rel_path)[i] \notin PrunedDirNames

\* CodeFileHandler.watch_extensions
WatchExtensions == {".java", ".ts", ".tsx", ".js", ".jsx"}

\* the directories named by FileWatcher.ignore_patterns ('**/name/**')
IgnorePatternDirs ==
    {"node_modules", "target", "build", "dist", ".git", ".vscode", ".idea"}

\* CodeFileHandler._should_process(file_path), file_path absolute
ShouldProcess(file_path) ==
    /\ Suffix(Basename(file_path)) \in WatchExtensions
    /\ ~\E i \in DOMAIN DirParts(file_path) :
            DirParts(file_path)[i] \in IgnorePatternDirs

(***************************************************************************)
(* The project on disk.  One project root; each file holds one of a few    *)
(* contents or is absent.                                                  *)
(***************************************************************************)
Root == "/proj"

\* paths set_project_path rejects: a missing path and a plain file
InvalidPaths == {"/missing", "/proj/A.java"}

\* every file a project of the model may hold, relative to the root
RelPaths == {"A.java", "b.ts", "node_modules/c.js"}

\* the files of the project the indexer is run on
ProjectFiles == {"A.java", "node_modules/c.js"}

Absent == "absent"

\* class A { void m(){} void n(){ m(); } }
JavaV1 ==
    Text(JProgram(<<JClass("A", <<JMethod("m", <<>>, 1),
                                  JMethod("n", <<JCall("m", 1)>>, 1)>>, 1)>>), 1)

\* class A { void n(){} }
JavaV2 == Text(JProgram(<<JClass("A", <<JMethod("n", <<>>, 1)>>, 1)>>), 1)

\* class A { void n(){ int x = ((((...1...)))); } }
JavaDeep ==
    Text(JProgram(<<JClass("A", <<JMethod("n", <<TooDeep(1)>>, 1)>>, 1)>>), 1)

\* function g(){} function f(){ g(); }
ScriptV1 ==
    Text(Node("program", "", 1,
              <<TFunction("g", <<>>, 1), TFunction("f", <<TCall("g", 1)>>, 1)>>), 1)

\* what a file may hold, by name
ContentNames(rel_path) ==
    IF rel_path = "A.java" THEN {"JavaV1", "JavaV2", "JavaDeep", "Undecodable"}
    ELSE {"ScriptV1"}

Content(name) ==
    CASE name = "JavaV1" -> JavaV1
      [] name = "JavaV2" -> JavaV2
      [] name = "JavaDeep" -> JavaDeep
      [] name = "ScriptV1" -> ScriptV1
      [] OTHER -> Undecodable

(***************************************************************************)
(* CodeIndexer state and the two threads that touch it.                    *)
(***************************************************************************)
VARIABLES
    disk,          \* relative path -> content name, or Absent
    changes,       \* file-system changes made so far
    disk_stable,   \* no file-system change since the last os.walk listing
    base_path,     \* CodeIndexer.base_path (None until a project is set)
    index_data,    \* CodeIndexer.index_data
    cache,         \* the snapshot in cache_dir/index.msgpack
    file_watcher,  \* CodeIndexer.file_watcher: its flag, observer, queue
    fg,            \* the foreground thread: position and locals
    wt,            \* the observer thread: position and locals
    result,        \* what the last foreground call returned
    overlapped,    \* history: a callback has run while a call was under way
    px             \* the parser exercised on its own: source, symbols, query

indexer_vars == <<disk, changes, disk_stable, base_path, index_data, cache,
                  file_watcher, fg, wt, result, overlapped>>

vars == <<disk, changes, disk_stable, base_path, index_data, cache,
          file_watcher, fg, wt, result, overlapped, px>>

\* index_data == {} at construction: falsy, every .get() gives its default
NoIndexData ==
    [is_empty |-> TRUE, files |-> EmptyDict, symbols |-> EmptyDict,
     file_list |-> <<>>]

\* FreshIndexData for a rebuild that does not clear what the index holds
FreshIndexDataKept == [index_data EXCEPT !.is_empty = FALSE]

\* {"files": {}, "symbols": {}, "file_list": []}
FreshIndexData ==
    [is_empty |-> FALSE, files |-> EmptyDict, symbols |-> EmptyDict,
     file_list |-> <<>>]

NoParse == [raised |-> FALSE, symbols |-> EmptyDict,
            file_info |-> FileInfo("", 0, <<>>, <<>>, <<>>, NoList, None)]

NoWatcher ==
    [exists |-> FALSE, is_watching |-> FALSE, observer |-> "none",
     queue |-> <<>>, base_path |-> None]

FgIdle == [pc |-> "idle", op |-> "none", todo |-> {}, path |-> None,
           parsed |-> NoParse]

WtIdle == [pc |-> "idle", path |-> None, event_type |-> None,
           parsed |-> NoParse]

NoResult == [op |-> "none", ok |-> FALSE, error |-> None, file_count |-> 0]

ErrorResult(op, message) ==
    [op |-> op, ok |-> FALSE, error |-> message, file_count |-> 0]

\* _index_file picks the parser by Path(file_path).suffix
ParseByExtension(file_path, content) ==
    IF Suffix(Basename(file_path)) = ".java"
    THEN JavaParseFile(file_path, content)
    ELSE TypeScriptParseFile(file_path, content)

(***************************************************************************)
(* The pure functions above, tabulated once over the paths and contents    *)
(* of the model (the actions look the values up instead of recomputing     *)
(* them in every state).                                                   *)
(***************************************************************************)
\* os.path.join(base, rel_path)
AbsPath == [base \in {Root} |-> [rel \in RelPaths |-> JoinPath(base, rel)]]

AbsPaths == {AbsPath[Root][rel] : rel \in RelPaths}

\* os.path.relpath(file_path, base)
RelPathOf == [base \in {Root} |-> [path \in AbsPaths |-> RelPath(path, base)]]

\* the files the walk of _build_index would hand to _index_file
WalkAccepts ==
    {rel \in RelPaths : WalkReaches(rel) /\ IsCodeFile(Basename(rel))}

\* the files whose events CodeFileHandler passes to the callback
WatcherAccepts ==
    {rel \in RelPaths : ShouldProcess(AbsPath[Root][rel])}

\* parse_file of each content at each path
Parsed ==
    [rel \in RelPaths |-> [name \in ContentNames(rel) |->
        ParseByExtension(AbsPath[Root][rel], Content(name))]]

\* open(file_path).read() succeeds
Readable(rel_path) ==
    /\ disk[rel_path] # Absent
    /\ Content(disk[rel_path]).readable

\* the try body of _index_file gets past read() and parse_file
IndexFileSucceeds(rel_path) ==
    /\ Readable(rel_path)
    /\ ~Parsed[rel_path][disk[rel_path]].raised

\* self.index_data["files"][rel_path] = asdict(file_info)
StoreFileInfo(idx, rel_path, file_info) ==
    [idx EXCEPT !.files = DPut(@, rel_path, file_info)]

\* self.index_data["symbols"].update({k: asdict(v) ...})
UpdateSymbols(idx, symbols) ==
    [idx EXCEPT !.symbols = DUpdate(@, symbols)]

\* self.index_data["file_list"].append(rel_path)
AppendFileList(idx, rel_path) ==
    [idx EXCEPT !.file_list = Append(@, rel_path)]

\* DeleteFileInfo with the del left out
DeleteFileInfoKept(idx, rel_path) == idx

\* DeleteFileInfo for a deletion that also purges the file's symbols
DeleteFileInfoPurging(idx, rel_path) ==
    [idx EXCEPT !.files = DDel(@, rel_path),
                !.symbols = SelectSeq(@, LAMBDA e :
                                e.v.file # AbsPath[Root][rel_path])]

\* del self.index_data["files"][rel_path]
DeleteFileInfo(idx, rel_path) == [idx EXCEPT !.files = DDel(@, rel_path)]

\* self.index_data["file_list"].remove(rel_path)
RemoveFromFileList(idx, rel_path) ==
    [idx EXCEPT !.file_list = ListRemove(@, rel_path)]

\* SavedIndex for a save that leaves file_list out of the snapshot
SavedIndexNoList(idx) ==
    [written |-> TRUE, data |-> [idx EXCEPT !.file_list = <<>>]]

\* _save_index: msgpack.pack(self.index_data) into the cache file
SavedIndex(idx) == [written |-> TRUE, data |-> idx]

\* JoinReturns for a stop() that does not wait for the observer thread
JoinReturnsAtOnce == TRUE

\* observer.join() returns once the observer thread has ended: the
\* callback it was running has returned, or has raised and killed it
JoinReturns == wt.pc \in {"idle", "dead"}

\* the files the os.walk of _build_index hands to _index_file
WalkListing ==
    {rel \in DOMAIN disk : disk[rel] # Absent /\ rel \in WalkAccepts}

(***************************************************************************)
(* Queries of CodeIndexer.                                                 *)
(***************************************************************************)
\* the symbols analyse_file collects for rel_path
FileSymbols(idx, base, rel_path) ==
    SelectSeq(idx.symbols, LAMBDA e : e.v.file = AbsPath[base][rel_path])

\* analyse_file(file_path); of the paths used here those that start with
\* base_path are exactly the absolute ones
AnalyseFile(idx, base, file_path) ==
    LET rel_path == IF file_path \in AbsPaths
                    THEN RelPathOf[base][file_path] ELSE file_path
    IN  IF idx.is_empty
        THEN [success |-> FALSE, error |-> "No project indexed",
              file_path |-> None, file_info |-> NoParse.file_info,
              symbols |-> EmptyDict]
        ELSE IF DHas(idx.files, rel_path)
        THEN [success |-> TRUE, error |-> None, file_path |-> rel_path,
              file_info |-> DGet(idx.files, rel_path),
              symbols |-> FileSymbols(idx, base, rel_path)]
        ELSE [success |-> FALSE,
              error |-> "File not found in index: " \o rel_path,
              file_path |-> None, file_info |-> NoParse.file_info,
              symbols |-> EmptyDict]

\* a foreground call and a watcher callback are both under way
Overlap(f, w) == f.pc # "idle" /\ w.pc \notin {"idle", "dead"}

\* what every step of the indexer does besides its own work: the history
\* is kept, the parser's own state machine stands still
Trace ==
    /\ overlapped' = (overlapped \/ Overlap(fg', wt'))
    /\ UNCHANGED px

(***************************************************************************)
(* The environment: files are written and deleted under the project root.  *)
(* A running observer queues one event per change; CodeFileHandler drops   *)
(* the events _should_process rejects, which is done here as they arrive.  *)
(***************************************************************************)
\* Emit for an observer that coalesces: no event is queued for a path that
\* already has one waiting
EmitCoalescing(rel_path, event_type) ==
    IF /\ file_watcher.observer = "running"
       /\ rel_path \in WatcherAccepts
       /\ \A i \in DOMAIN file_watcher.queue :
             file_watcher.queue[i].src_path
                # AbsPath[file_watcher.base_path][rel_path]
    THEN file_watcher' = [file_watcher EXCEPT !.queue = Append(@,
             [src_path |-> AbsPath[file_watcher.base_path][rel_path],
              event_type |-> event_type])]
    ELSE UNCHANGED file_watcher

Emit(rel_path, event_type) ==
    IF /\ file_watcher.observer = "running"
       /\ rel_path \in WatcherAccepts
    THEN file_watcher' = [file_watcher EXCEPT !.queue = Append(@,
             [src_path |-> AbsPath[file_watcher.base_path][rel_path],
              event_type |-> event_type])]
    ELSE UNCHANGED file_watcher

\* a file is created, rewritten or touched
EnvWrite ==
    /\ changes < MaxDiskChanges
    /\ \E rel \in DOMAIN disk : \E name \in ContentNames(rel) :
         /\ disk' = [disk EXCEPT ![rel] = name]
         /\ Emit(rel, IF disk[rel] = Absent THEN "created" ELSE "modified")
    /\ changes' = changes + 1
    /\ disk_stable' = FALSE
    /\ UNCHANGED <<base_path, index_data, cache, fg, wt, result>>
    /\ Trace

\* a file is deleted
EnvDelete ==
    /\ changes < MaxDiskChanges
    /\ \E rel \in DOMAIN disk :
         /\ disk[rel] # Absent
         /\ disk' = [disk EXCEPT ![rel] = Absent]
         /\ Emit(rel, "deleted")
    /\ changes' = changes + 1
    /\ disk_stable' = FALSE
    /\ UNCHANGED <<base_path, index_data, cache, fg, wt, result>>
    /\ Trace

(***************************************************************************)
(* The foreground thread: set_project_path, refresh_index, shutdown.       *)
(***************************************************************************)
\* SetProjectPathInvalid with line 689 moved above the two checks: the base
\* path is assigned before the path is validated
SetProjectPathInvalidLate ==
    /\ fg.pc = "idle"
    /\ \E path \in InvalidPaths :
         /\ base_path' = path
         /\ result' = ErrorResult("set_project_path",
                         "Path does not exist: " \o path)
    /\ UNCHANGED <<disk, changes, disk_stable, index_data, cache,
                   file_watcher, fg, wt>>
    /\ Trace

\* set_project_path on a path that is missing or no directory
SetProjectPathInvalid ==
    /\ fg.pc = "idle"
    /\ \E path \in InvalidPaths :
         result' = ErrorResult("set_project_path",
                      IF path = "/missing"
                      THEN "Path does not exist: " \o path
                      ELSE "Path is not a directory: " \o path)
    /\ UNCHANGED <<disk, changes, disk_stable, base_path, index_data, cache,
                   file_watcher, fg, wt>>
    /\ Trace

\* set_project_path(Root): self.base_path = os.path.abspath(path)
SetProjectPathBegin ==
    /\ fg.pc = "idle"
    /\ base_path' = Root
    /\ fg' = [fg EXCEPT !.pc = "spp_stop", !.op = "set_project_path"]
    /\ result' = NoResult
    /\ UNCHANGED <<disk, changes, disk_stable, index_data, cache,
                   file_watcher, wt>>
    /\ Trace

\* SetProjectPathStop with lines 692-693 left out: the previous watcher is
\* not stopped
SetProjectPathStopSkipped ==
    /\ fg.pc = "spp_stop"
    /\ fg' = [fg EXCEPT !.pc = "build_clear"]
    /\ UNCHANGED <<disk, changes, disk_stable, base_path, index_data, cache,
                   file_watcher, wt, result>>
    /\ Trace

\* if self.file_watcher: self.file_watcher.stop()   -- up to observer.stop()
SetProjectPathStop ==
    /\ fg.pc = "spp_stop"
    /\ IF file_watcher.exists /\ file_watcher.is_watching
       THEN /\ file_watcher' = [file_watcher EXCEPT !.observer = "stopping"]
            /\ fg' = [fg EXCEPT !.pc = "spp_join"]
       ELSE /\ fg' = [fg EXCEPT !.pc = "build_clear"]
            /\ UNCHANGED file_watcher
    /\ UNCHANGED <<disk, changes, disk_stable, base_path, index_data, cache,
                   wt, result>>
    /\ Trace

\* FileWatcher.stop: observer.join(); self.is_watching = False
StopJoined(watcher) ==
    [watcher EXCEPT !.observer = "dead", !.is_watching = FALSE,
                    !.queue = <<>>]

SetProjectPathJoin ==
    /\ fg.pc = "spp_join"
    /\ JoinReturns
    /\ file_watcher' = StopJoined(file_watcher)
    /\ fg' = [fg EXCEPT !.pc = "build_clear"]
    /\ UNCHANGED <<disk, changes, disk_stable, base_path, index_data, cache,
                   wt, result>>
    /\ Trace

\* _build_index: the index is replaced by an empty one and os.walk lists
\* the project
BuildClear ==
    /\ fg.pc = "build_clear"
    /\ index_data' = FreshIndexData
    /\ fg' = [fg EXCEPT !.pc = "build_walk", !.todo = WalkListing]
    /\ disk_stable' = TRUE
    /\ UNCHANGED <<disk, changes, base_path, cache, file_watcher, wt, result>>
    /\ Trace

\* the walk is over: on to _save_index
BuildWalkDone ==
    /\ fg.pc = "build_walk"
    /\ fg.todo = {}
    /\ fg' = [fg EXCEPT !.pc = "build_save"]
    /\ UNCHANGED <<disk, changes, disk_stable, base_path, index_data, cache,
                   file_watcher, wt, result>>
    /\ Trace

\* _index_file on the next listed file: it is read and parsed; a file that
\* cannot be read raises inside the try and is skipped
BuildWalkFile ==
    /\ fg.pc = "build_walk"
    /\ \E rel \in fg.todo :
         IF IndexFileSucceeds(rel)
         THEN fg' = [fg EXCEPT !.pc = "if_files", !.todo = @ \ {rel},
                        !.path = AbsPath[base_path][rel],
                        !.parsed = Parsed[rel][disk[rel]]]
         ELSE fg' = [fg EXCEPT !.todo = @ \ {rel}]
    /\ UNCHANGED <<disk, changes, disk_stable, base_path, index_data, cache,
                   file_watcher, wt, result>>
    /\ Trace

FgStoreFile ==
    /\ fg.pc = "if_files"
    /\ index_data' = StoreFileInfo(index_data, RelPathOf[base_path][fg.path],
                                   fg.parsed.file_info)
    /\ fg' = [fg EXCEPT !.pc = "if_symbols"]
    /\ UNCHANGED <<disk, changes, disk_stable, base_path, cache,
                   file_watcher, wt, result>>
    /\ Trace

FgUpdateSymbols ==
    /\ fg.pc = "if_symbols"
    /\ index_data' = UpdateSymbols(index_data, fg.parsed.symbols)
    /\ fg' = [fg EXCEPT !.pc = "if_list"]
    /\ UNCHANGED <<disk, changes, disk_stable, base_path, cache,
                   file_watcher, wt, result>>
    /\ Trace

FgAppendFileList ==
    /\ fg.pc = "if_list"
    /\ index_data' = AppendFileList(index_data, RelPathOf[base_path][fg.path])
    /\ fg' = [fg EXCEPT !.pc = "build_walk", !.path = None,
                        !.parsed = NoParse]
    /\ UNCHANGED <<disk, changes, disk_stable, base_path, cache,
                   file_watcher, wt, result>>
    /\ Trace

\* _save_index at the end of _build_index
BuildSave ==
    /\ fg.pc = "build_save"
    /\ cache' = SavedIndex(index_data)
    /\ fg' = [fg EXCEPT !.pc = IF fg.op = "set_project_path"
                               THEN "spp_start" ELSE "refresh_return"]
    /\ UNCHANGED <<disk, changes, disk_stable, base_path, index_data,
                   file_watcher, wt, result>>
    /\ Trace

\* FileWatcher(self.base_path, self._on_file_change).start(): a new
\* Observer, hence a new observer thread
StartedWatcher(base) ==
    [exists |-> TRUE, is_watching |-> TRUE, observer |-> "running",
     queue |-> <<>>, base_path |-> base]

SetProjectPathStart ==
    /\ fg.pc = "spp_start"
    /\ file_watcher' = StartedWatcher(base_path)
    /\ wt' = WtIdle
    /\ fg' = [fg EXCEPT !.pc = "spp_return"]
    /\ UNCHANGED <<disk, changes, disk_stable, base_path, index_data, cache,
                   result>>
    /\ Trace

\* file_count = len(self.index_data.get('files', {})); return
SetProjectPathReturn ==
    /\ fg.pc = "spp_return"
    /\ result' = [op |-> "set_project_path", ok |-> TRUE, error |-> None,
                  file_count |-> Len(index_data.files)]
    /\ fg' = FgIdle
    /\ UNCHANGED <<disk, changes, disk_stable, base_path, index_data, cache,
                   file_watcher, wt>>
    /\ Trace

\* refresh_index before any project path was set
RefreshIndexNoProject ==
    /\ fg.pc = "idle"
    /\ base_path = None
    /\ result' = ErrorResult("refresh_index", "No project path set")
    /\ UNCHANGED <<disk, changes, disk_stable, base_path, index_data, cache,
                   file_watcher, fg, wt>>
    /\ Trace

\* refresh_index: straight into _build_index
RefreshIndexBegin ==
    /\ fg.pc = "idle"
    /\ base_path # None
    /\ fg' = [fg EXCEPT !.pc = "build_clear", !.op = "refresh_index"]
    /\ result' = NoResult
    /\ UNCHANGED <<disk, changes, disk_stable, base_path, index_data, cache,
                   file_watcher, wt>>
    /\ Trace

RefreshIndexReturn ==
    /\ fg.pc = "refresh_return"
    /\ result' = [op |-> "refresh_index", ok |-> TRUE, error |-> None,
                  file_count |-> Len(index_data.files)]
    /\ fg' = FgIdle
    /\ UNCHANGED <<disk, changes, disk_stable, base_path, index_data, cache,
                   file_watcher, wt>>
    /\ Trace

\* shutdown(): stop() of the watcher, if there is one and it is watching
ShutdownBegin ==
    /\ fg.pc = "idle"
    /\ IF file_watcher.exists /\ file_watcher.is_watching
       THEN /\ file_watcher' = [file_watcher EXCEPT !.observer = "stopping"]
            /\ fg' = [fg EXCEPT !.pc = "shutdown_join", !.op = "shutdown"]
            /\ result' = NoResult
       ELSE /\ result' = [NoResult EXCEPT !.op = "shutdown", !.ok = TRUE]
            /\ UNCHANGED <<file_watcher, fg>>
    /\ UNCHANGED <<disk, changes, disk_stable, base_path, index_data, cache,
                   wt>>
    /\ Trace

ShutdownJoin ==
    /\ fg.pc = "shutdown_join"
    /\ JoinReturns
    /\ file_watcher' = StopJoined(file_watcher)
    /\ fg' = FgIdle
    /\ result' = [NoResult EXCEPT !.op = "shutdown", !.ok = TRUE]
    /\ UNCHANGED <<disk, changes, disk_stable, base_path, index_data, cache,
                   wt>>
    /\ Trace

(***************************************************************************)
(* The observer thread: one _on_file_change callback at a time, in the     *)
(* order the events were queued.  No lock is taken anywhere, so the two    *)
(* threads interleave between statements: each write of index_data, and    *)
(* each test that precedes one, is a step of its own.                      *)
(***************************************************************************)
\* the next event is taken; for created/modified the file is read and
\* parsed if it exists and can be read
WtDispatch ==
    /\ wt.pc = "idle"
    /\ file_watcher.observer = "running"
    /\ file_watcher.queue # <<>>
    /\ base_path # None
    /\ LET event == Head(file_watcher.queue)
           rel == RelPathOf[base_path][event.src_path]
       IN  /\ file_watcher' = [file_watcher EXCEPT !.queue = Tail(@)]
           /\ wt' = IF event.event_type = "deleted"
                    THEN [wt EXCEPT !.pc = "del_files",
                                    !.path = event.src_path,
                                    !.event_type = event.event_type]
                    ELSE IF IndexFileSucceeds(rel)
                    THEN [wt EXCEPT !.pc = "if_files",
                                    !.path = event.src_path,
                                    !.event_type = event.event_type,
                                    !.parsed = Parsed[rel][disk[rel]]]
                    ELSE [wt EXCEPT !.pc = "save",
                                    !.path = event.src_path,
                                    !.event_type = event.event_type]
    /\ UNCHANGED <<disk, changes, disk_stable, base_path, index_data, cache,
                   fg, result>>
    /\ Trace

WtStoreFile ==
    /\ wt.pc = "if_files"
    /\ index_data' = StoreFileInfo(index_data, RelPathOf[base_path][wt.path],
                                   wt.parsed.file_info)
    /\ wt' = [wt EXCEPT !.pc = "if_symbols"]
    /\ UNCHANGED <<disk, changes, disk_stable, base_path, cache,
                   file_watcher, fg, result>>
    /\ Trace

WtUpdateSymbols ==
    /\ wt.pc = "if_symbols"
    /\ index_data' = UpdateSymbols(index_data, wt.parsed.symbols)
    /\ wt' = [wt EXCEPT !.pc = "if_list"]
    /\ UNCHANGED <<disk, changes, disk_stable, base_path, cache,
                   file_watcher, fg, result>>
    /\ Trace

WtAppendFileList ==
    /\ wt.pc = "if_list"
    /\ index_data' = AppendFileList(index_data, RelPathOf[base_path][wt.path])
    /\ wt' = [wt EXCEPT !.pc = "save"]
    /\ UNCHANGED <<disk, changes, disk_stable, base_path, cache,
                   file_watcher, fg, result>>
    /\ Trace

\* an exception leaves the callback: the observer thread dies with it
WtDead == [WtIdle EXCEPT !.pc = "dead"]

\* if rel_path in self.index_data.get("files", {}):
WtDeleteFileTest ==
    /\ wt.pc = "del_files"
    /\ wt' = [wt EXCEPT !.pc =
                IF DHas(index_data.files, RelPathOf[base_path][wt.path])
                THEN "del_files_del" ELSE "del_list"]
    /\ UNCHANGED <<disk, changes, disk_stable, base_path, index_data, cache,
                   file_watcher, fg, result>>
    /\ Trace

\* del self.index_data["files"][rel_path]; KeyError if a rebuild has
\* replaced the index since the test
WtDeleteFile ==
    /\ wt.pc = "del_files_del"
    /\ IF DHas(index_data.files, RelPathOf[base_path][wt.path])
       THEN /\ index_data' = DeleteFileInfo(index_data,
                                            RelPathOf[base_path][wt.path])
            /\ wt' = [wt EXCEPT !.pc = "del_list"]
       ELSE /\ wt' = WtDead
            /\ UNCHANGED index_data
    /\ UNCHANGED <<disk, changes, disk_stable, base_path, cache,
                   file_watcher, fg, result>>
    /\ Trace

\* if rel_path in self.index_data.get("file_list", []):
WtRemoveFromListTest ==
    /\ wt.pc = "del_list"
    /\ wt' = [wt EXCEPT !.pc =
                IF InList(RelPathOf[base_path][wt.path], index_data.file_list)
                THEN "del_list_remove" ELSE "save"]
    /\ UNCHANGED <<disk, changes, disk_stable, base_path, index_data, cache,
                   file_watcher, fg, result>>
    /\ Trace

\* self.index_data["file_list"].remove(rel_path); ValueError if a rebuild
\* has replaced the index since the test
WtRemoveFromList ==
    /\ wt.pc = "del_list_remove"
    /\ IF InList(RelPathOf[base_path][wt.path], index_data.file_list)
       THEN /\ index_data' = RemoveFromFileList(index_data,
                                                RelPathOf[base_path][wt.path])
            /\ wt' = [wt EXCEPT !.pc = "save"]
       ELSE /\ wt' = WtDead
            /\ UNCHANGED index_data
    /\ UNCHANGED <<disk, changes, disk_stable, base_path, cache,
                   file_watcher, fg, result>>
    /\ Trace

\* _save_index at the end of _on_file_change; the callback returns
WtSave ==
    /\ wt.pc = "save"
    /\ cache' = SavedIndex(index_data)
    /\ wt' = WtIdle
    /\ UNCHANGED <<disk, changes, disk_stable, base_path, index_data,
                   file_watcher, fg, result>>
    /\ Trace

(***************************************************************************)
(* The indexer with its watcher: construction, then any interleaving of    *)
(* the environment, the foreground thread and the observer thread.         *)
(***************************************************************************)
NoCache == [written |-> FALSE, data |-> NoIndexData]

PxOff == [phase |-> "off", desc |-> <<>>, symbols |-> EmptyDict,
          query |-> None, callers |-> <<>>]

\* CodeIndexer.__init__
Constructed ==
    /\ changes = 0
    /\ disk_stable = TRUE
    /\ base_path = None
    /\ index_data = NoIndexData
    /\ cache = NoCache
    /\ file_watcher = NoWatcher
    /\ fg = FgIdle
    /\ wt = WtIdle
    /\ result = NoResult
    /\ overlapped = FALSE

Init ==
    /\ disk \in {d \in [ProjectFiles -> {Absent, "JavaV1", "JavaV2", "JavaDeep",
                                         "ScriptV1", "Undecodable"}] :
                    \A rel \in ProjectFiles :
                        d[rel] \in ContentNames(rel) \cup {Absent}}
    /\ Constructed
    /\ px = PxOff

Next ==
    \/ EnvWrite
    \/ EnvDelete
    \/ SetProjectPathInvalid
    \/ SetProjectPathBegin
    \/ SetProjectPathStop
    \/ SetProjectPathJoin
    \/ BuildClear
    \/ BuildWalkDone
    \/ BuildWalkFile
    \/ FgStoreFile
    \/ FgUpdateSymbols
    \/ FgAppendFileList
    \/ BuildSave
    \/ SetProjectPathStart
    \/ SetProjectPathReturn
    \/ RefreshIndexNoProject
    \/ RefreshIndexBegin
    \/ RefreshIndexReturn
    \/ ShutdownBegin
    \/ ShutdownJoin
    \/ WtDispatch
    \/ WtStoreFile
    \/ WtUpdateSymbols
    \/ WtAppendFileList
    \/ WtDeleteFileTest
    \/ WtDeleteFile
    \/ WtRemoveFromListTest
    \/ WtRemoveFromList
    \/ WtSave

Spec == Init /\ [][Next]_vars

(***************************************************************************)
(* Java sources the parser is exercised on: class Order with up to         *)
(* MaxMethods methods named ship or confirm, each body a sequence of up    *)
(* to MaxCalls calls of ship() or confirm().                               *)
(***************************************************************************)
MethodNames == {"ship", "confirm"}

CallSeqs == UNION {[1..n -> MethodNames] : n \in 0..MaxCalls}

MethodDescs == [name : MethodNames, calls : CallSeqs]

ClassDescs == UNION {[1..n -> MethodDescs] : n \in 0..MaxMethods}

\* the source text of class Order { ... } written on one line
OrderSource(desc) ==
    Text(JProgram(<<JClass("Order",
            [i \in DOMAIN desc |->
                JMethod(desc[i].name,
                        [j \in DOMAIN desc[i].calls |-> JCall(desc[i].calls[j], 1)],
                        1)],
            1)>>), 1)

\* class Order { void confirm(){ ship(); } void ship(){} }
ConfirmThenShip ==
    <<[name |-> "confirm", calls |-> <<"ship">>],
      [name |-> "ship", calls |-> <<>>]>>

\* class Order { void ship(){} void confirm(){ ship(); } }
ShipThenConfirm ==
    <<[name |-> "ship", calls |-> <<>>],
      [name |-> "confirm", calls |-> <<"ship">>]>>

OrderPath == "/proj/Order.java"

\* the source text of a script of functions: function name(){ calls }
ScriptSource(desc) ==
    Text(JProgram([i \in DOMAIN desc |->
            TFunction(desc[i].name,
                      [j \in DOMAIN desc[i].calls |-> TCall(desc[i].calls[j], 1)],
                      1)]), 1)

ScriptPath == "/proj/order.ts"

(***************************************************************************)
(* The parser and the queries as a state machine of their own: a source    *)
(* is chosen, parsed into a symbol map, then queried.                      *)
(***************************************************************************)
QueryNames == MethodNames \cup {"Order", "Order.ship", "SHIP", "pay"}

PxInit ==
    /\ disk = [rel \in ProjectFiles |-> Absent]
    /\ Constructed
    /\ px \in [phase : {"source"}, desc : ClassDescs,
            symbols : {EmptyDict}, query : {None}, callers : {<<>>},
            result : {<<>>}, script_symbols : {EmptyDict}]

\* the file is indexed: parse_file, then symbols.update into an empty map;
\* so is a script that declares the same functions with the same calls
PxParse ==
    /\ UNCHANGED <<disk, indexer_vars>>
    /\ px.phase = "source"
    /\ px' = [px EXCEPT !.phase = "indexed",
                !.symbols = DUpdate(EmptyDict,
                    JavaParseFile(OrderPath, OrderSource(px.desc)).symbols),
                !.script_symbols = DUpdate(EmptyDict,
                    TypeScriptParseFile(ScriptPath, ScriptSource(px.desc)).symbols)]

\* find_functions_calling(name); the dict it returns is kept, and the
\* callers' symbol ids apart
PxFindFunctionsCalling ==
    /\ UNCHANGED <<disk, indexer_vars>>
    /\ px.phase = "indexed"
    /\ \E name \in QueryNames :
         LET r == FindFunctionsCalling(px.symbols, name)
         IN  px' = [px EXCEPT !.phase = "asked", !.query = name,
                       !.result = r,
                       !.callers = [i \in DOMAIN r.callers |->
                                       r.callers[i].symbol_id]]

PxNext == PxParse \/ PxFindFunctionsCalling

SpecParse == PxInit /\ [][PxNext]_vars

(***************************************************************************)
(* C7.  As claimed: after indexing                                         *)
(*   class Order { void confirm(){ ship(); } void ship(){} }               *)
(* find_functions_calling("ship") returns exactly one caller,              *)
(* Order.confirm.                                                          *)
(***************************************************************************)
C7_AsClaimed ==
    (px.phase = "asked" /\ px.desc = ConfirmThenShip /\ px.query = "ship")
        => px.callers = <<CreateSymbolId(OrderPath, "Order.confirm")>>

(***************************************************************************)
(* C7 amended.  For that source find_functions_calling("ship") returns no  *)
(* caller, because the call in confirm precedes the declaration of ship;   *)
(* with ship declared before confirm it returns exactly one caller,        *)
(* Order.confirm.                                                          *)
(***************************************************************************)
C7_ForwardCallUnresolved ==
    (px.phase = "asked" /\ px.query = "ship") =>
        /\ px.desc = ConfirmThenShip => px.callers = <<>>
        /\ px.desc = ShipThenConfirm =>
              px.callers = <<CreateSymbolId(OrderPath, "Order.confirm")>>

C7_Witness ==
    /\ px.phase = "asked" /\ px.query = "ship"
    /\ px.desc = ConfirmThenShip
    /\ px.callers = <<>>
    /\ DHas(px.symbols, CreateSymbolId(OrderPath, "Order.ship"))

(***************************************************************************)
(* The claims about the indexer speak of one file F at a time; these are   *)
(* the views of the index they use.                                        *)
(***************************************************************************)
IndexableFiles == {rel \in ProjectFiles : rel \in WalkAccepts}

Rebuilding ==
    fg.pc \in {"build_walk", "if_files", "if_symbols", "if_list", "build_save"}

\* the callback has handled a created or modified event for an existing,
\* readable file and has only its save left
WtIndexed ==
    /\ wt.pc = "save"
    /\ wt.event_type \in {"created", "modified"}
    /\ wt.parsed # NoParse

\* the callback has handled a deleted event and has only its save left
WtDeleted == wt.pc = "save" /\ wt.event_type = "deleted"

\* F's FileRecord, F's symbols and F's file_list entry all come from the
\* parse of one content of F, or the index holds nothing of F
FromOneParse(rel) ==
    \/ /\ ~DHas(index_data.files, rel)
       /\ FileSymbols(index_data, base_path, rel) = EmptyDict
       /\ ~InList(rel, index_data.file_list)
    \/ \E name \in ContentNames(rel) :
         /\ Content(name).readable
         /\ DHas(index_data.files, rel)
         /\ DGet(index_data.files, rel) = Parsed[rel][name].file_info
         /\ ListSet(FileSymbols(index_data, base_path, rel))
                = ListSet(Parsed[rel][name].symbols)
         /\ InList(rel, index_data.file_list)

(***************************************************************************)
(* C1.  As claimed: after the watcher has processed a created or modified  *)
(* event for F, the symbols of the index whose file is F are exactly the   *)
(* symbols of the newest parse of F.  Stated for runs in which no callback *)
(* has ever overlapped a foreground call.                                  *)
(***************************************************************************)
C1_SymbolsReplaced ==
    (WtIndexed /\ ~overlapped) =>
        ListSet(FileSymbols(index_data, base_path,
                            RelPathOf[base_path][wt.path]))
            = ListSet(wt.parsed.symbols)

(***************************************************************************)
(* C2.  As claimed: whenever no call and no callback is under way, a       *)
(* relative path occurs in file_list if and only if it has an entry in     *)
(* files.  Stated for runs in which no callback has ever overlapped a      *)
(* foreground call, i.e. for sequences of calls and events.                *)
(***************************************************************************)
C2_FileListMatchesFiles ==
    (fg.pc = "idle" /\ wt.pc \in {"idle", "dead"} /\ ~overlapped) =>
        ListSet(index_data.file_list) = DKeys(index_data.files)

(***************************************************************************)
(* C3.  As claimed: while the watcher thread is applying an update to F    *)
(* and the foreground thread is free to issue a query, the index never     *)
(* shows a half-updated F: record, symbols and file_list entry of F all    *)
(* come from one parse.                                                    *)
(***************************************************************************)
C3_NoHalfUpdatedFile ==
    (fg.pc = "idle" /\ wt.pc \in {"if_files", "if_symbols", "if_list"}) =>
        FromOneParse(RelPathOf[base_path][wt.path])

(***************************************************************************)
(* C4.  As claimed: while a rebuild is between its clear and its save, no  *)
(* step of the watcher callback writes the index.                          *)
(***************************************************************************)
C4_NoWatcherWriteInRebuild ==
    [][Rebuilding => ~(wt' # wt /\ index_data' # index_data)]_vars

(***************************************************************************)
(* C5.  As claimed: after the watcher has processed a deleted event for F, *)
(* F no longer occurs in file_list.  Stated for runs in which no callback  *)
(* has ever overlapped a foreground call.                                  *)
(***************************************************************************)
C5_DeletedLeavesFileList ==
    (WtDeleted /\ ~overlapped) =>
        ~InList(RelPathOf[base_path][wt.path], index_data.file_list)

(***************************************************************************)
(* C6.  After a deleted event for F has been processed, and until F is     *)
(* indexed again, analyse_file(F) returns the not-indexed error: the       *)
(* delete step of the callback leaves analyse_file(F) failing with "File   *)
(* not found in index", and analyse_file(F) goes from failing to           *)
(* succeeding only in a step in which _index_file stores F's newly parsed  *)
(* record, which is then the record it returns.                            *)
(***************************************************************************)
Analysed(idx, base, rel) == AnalyseFile(idx, base, AbsPath[Root][rel])

Stores(t, u, rel) ==
    /\ t.pc = "if_files" /\ u.pc = "if_symbols"
    /\ t.path = AbsPath[Root][rel]

C6_DeletedFileNotIndexed ==
    [][/\ (wt.pc = "del_files_del" /\ wt'.pc = "del_list") =>
            LET rel == RelPathOf[base_path][wt.path]
                r == Analysed(index_data', base_path', rel)
            IN  /\ ~r.success
                /\ r.error = "File not found in index: " \o rel
       /\ \A rel \in IndexableFiles :
            (/\ base_path = Root /\ base_path' = Root
             /\ ~Analysed(index_data, base_path, rel).success
             /\ Analysed(index_data', base_path', rel).success)
            => \/ /\ Stores(fg, fg', rel)
                  /\ Analysed(index_data', base_path', rel).file_info
                        = fg.parsed.file_info
               \/ /\ Stores(wt, wt', rel)
                  /\ Analysed(index_data', base_path', rel).file_info
                        = wt.parsed.file_info
      ]_vars

\* the callback has just deleted the record of a file the last snapshot
\* still holds, and analyse_file no longer finds it
C6_Witness ==
    /\ wt.pc = "del_list" /\ wt.event_type = "deleted"
    /\ cache.written
    /\ DHas(cache.data.files, RelPathOf[base_path][wt.path])
    /\ LET r == AnalyseFile(index_data, base_path, wt.path)
       IN  ~r.success /\ r.error = "File not found in index: A.java"

(***************************************************************************)
(* C8.  As claimed: indexing an unchanged file a second time leaves its    *)
(* symbols as they were.  The file is unchanged when its new FileRecord    *)
(* equals the one in the last saved index; in runs without overlap that    *)
(* saved index is the index as it was before this call or callback began.  *)
(* The step looked at is the symbols.update of the second indexing.        *)
(***************************************************************************)
SecondIndexing(t, u, rel) ==
    /\ t.pc = "if_symbols" /\ u.pc = "if_list"
    /\ t.path = AbsPath[Root][rel]
    /\ cache.written
    /\ DHas(cache.data.files, rel)
    /\ DGet(cache.data.files, rel) = t.parsed.file_info

C8_ReindexingKeepsSymbols ==
    [][\A rel \in IndexableFiles :
         (/\ ~overlapped'
          /\ SecondIndexing(fg, fg', rel) \/ SecondIndexing(wt, wt', rel))
         => ListSet(FileSymbols(index_data', base_path', rel))
              = ListSet(FileSymbols(cache.data, base_path, rel))
      ]_vars

(***************************************************************************)
(* C9.  After FileWatcher.stop() has returned, in shutdown() or in         *)
(* set_project_path, the observer thread has ended: while is_watching is   *)
(* False no callback is under way and none begins, so no event changes     *)
(* the index, until set_project_path starts a new watcher with a new       *)
(* thread.                                                                 *)
(***************************************************************************)
C9_NoCallbackAfterStop ==
    [][~file_watcher.is_watching =>
         /\ wt.pc \in {"idle", "dead"}
         /\ \/ wt' = wt
            \/ /\ fg.pc = "spp_start"
               /\ file_watcher'.is_watching
               /\ wt' = WtIdle
      ]_vars

\* shutdown() has returned and a file that is gone from disk is still in
\* the index: its deleted event will never be handled
C9_Witness ==
    /\ result.op = "shutdown" /\ result.ok /\ fg.pc = "idle"
    /\ file_watcher.exists /\ ~file_watcher.is_watching
    /\ wt.pc = "idle"
    /\ \E rel \in IndexableFiles :
         disk[rel] = Absent /\ DHas(index_data.files, rel)

(***************************************************************************)
(* C10.  As claimed: after set_project_path has succeeded on a directory   *)
(* holding only files with recognised extensions, and with no change on    *)
(* disk since the walk, the returned file_count is the number of files on  *)
(* disk that are not inside a dot-directory, node_modules, target, build   *)
(* or dist.                                                                *)
(***************************************************************************)
C10_IgnoredDirs == {"node_modules", "target", "build", "dist"}

C10_NotIgnored ==
    {rel \in RelPaths :
        \A i \in DOMAIN DirParts(rel) :
            /\ SubSeq(DirParts(rel)[i], 1, 1) # "."
            /\ DirParts(rel)[i] \notin C10_IgnoredDirs}

C10_Recognised == {rel \in RelPaths : IsCodeFile(Basename(rel))}

C10_OnDisk == {rel \in DOMAIN disk : disk[rel] # Absent}

C10_Returned ==
    /\ result.op = "set_project_path" /\ result.ok
    /\ disk_stable
    /\ C10_OnDisk \subseteq C10_Recognised

C10_CountsFilesOnDisk ==
    C10_Returned =>
        result.file_count = Cardinality(C10_OnDisk \cap C10_NotIgnored)

(***************************************************************************)
(* C10 amended.  The returned file_count is the number of files on disk,   *)
(* not inside an ignored directory, that _index_file could read: a file    *)
(* whose read raises is skipped and not counted.                           *)
(***************************************************************************)
C10_CountsFilesRead ==
    C10_Returned =>
        result.file_count =
            Cardinality({rel \in C10_OnDisk \cap C10_NotIgnored :
                            Content(disk[rel]).readable})

\* set_project_path has returned 0 for a directory with an undecodable
\* A.java and a file under node_modules
C10_Witness ==
    /\ C10_Returned
    /\ disk["A.java"] = "Undecodable"
    /\ disk["node_modules/c.js"] # Absent
    /\ result.file_count = 0

(***************************************************************************)
(* C11.  refresh_index has the effect of the rebuild of set_project_path:  *)
(* when either returns, with no change on disk since its walk and in a run *)
(* in which no callback has overlapped a foreground call, files, symbols   *)
(* and file_list are what the files now on disk give, whatever the index   *)
(* held before; and no step of refresh_index changes whether the watcher   *)
(* exists, is watching, or what its observer does.                         *)
(***************************************************************************)
C11_OnDiskIndexable ==
    {rel \in IndexableFiles : IndexFileSucceeds(rel)}

C11_BuiltFromDisk(idx) ==
    /\ DKeys(idx.files) = C11_OnDiskIndexable
    /\ \A rel \in C11_OnDiskIndexable :
         DGet(idx.files, rel) = Parsed[rel][disk[rel]].file_info
    /\ ListSet(idx.symbols) =
         UNION {ListSet(Parsed[rel][disk[rel]].symbols) :
                  rel \in C11_OnDiskIndexable}
    /\ ListSet(idx.file_list) = C11_OnDiskIndexable
    /\ Len(idx.file_list) = Cardinality(C11_OnDiskIndexable)

C11_RefreshRebuildsFromDisk ==
    [][/\ (/\ fg.pc \in {"refresh_return", "spp_return"} /\ fg'.pc = "idle"
           /\ disk_stable /\ ~overlapped')
          => C11_BuiltFromDisk(index_data')
       /\ (fg.op = "refresh_index" \/ fg'.op = "refresh_index")
          => /\ file_watcher'.exists = file_watcher.exists
             /\ file_watcher'.is_watching = file_watcher.is_watching
             /\ file_watcher'.observer = file_watcher.observer
      ]_vars

\* refresh_index has returned after a change on disk whose event was
\* handled; the index is that of the file as it now is and the watcher
\* still watches
C11_Witness ==
    /\ result.op = "refresh_index" /\ result.ok /\ fg.pc = "idle"
    /\ disk_stable /\ ~overlapped
    /\ changes > 0
    /\ file_watcher.is_watching /\ file_watcher.queue = <<>>
    /\ disk["A.java"] = "JavaV2"
    /\ C11_BuiltFromDisk(index_data)

(***************************************************************************)
(* C12.  A file that cannot be read, or whose parse raises an exception,  *)
(* is skipped: when a rebuild has returned, with no change on disk since  *)
(* its walk and in a run in which no callback has overlapped a foreground *)
(* call, such a file has no entry in files, none in file_list and no      *)
(* symbol.                                                                 *)
(***************************************************************************)
\* the contents whose read raises, or whose traversal raises in the parser
C12_Fails ==
    [name \in ContentNames("A.java") |->
        \/ ~Content(name).readable
        \/ JavaTraverseNode(Content(name).tree, AbsPath[Root]["A.java"],
                            NewTraversal, None, None).raised]

C12_FailedFileSkipped ==
    (/\ fg.pc = "idle" /\ result.op \in {"set_project_path", "refresh_index"}
     /\ result.ok /\ disk_stable /\ ~overlapped)
    => \A rel \in IndexableFiles :
         (disk[rel] # Absent /\ C12_Fails[disk[rel]])
         => /\ ~DHas(index_data.files, rel)
            /\ ~InList(rel, index_data.file_list)
            /\ FileSymbols(index_data, base_path, rel) = <<>>

(***************************************************************************)
(* C13.  A call that fails with a configuration error returns an error    *)
(* result and changes nothing: the step that delivers an error result     *)
(* leaves base_path, index_data, the watcher and the cache as they were,  *)
(* it is a step of set_project_path or refresh_index, and for             *)
(* refresh_index it is taken with no base path and the index still empty. *)
(***************************************************************************)
C13_ConfigErrorChangesNothing ==
    [][(result' # result /\ result'.error # None)
       => /\ ~result'.ok
          /\ result'.op \in {"set_project_path", "refresh_index"}
          /\ base_path' = base_path
          /\ index_data' = index_data
          /\ file_watcher' = file_watcher
          /\ cache' = cache
          /\ fg' = fg
          /\ result'.op = "refresh_index"
             => (base_path' = None /\ index_data' = NoIndexData)
      ]_vars

\* set_project_path on an invalid path has returned its error while a
\* project is indexed and watched
C13_Witness ==
    /\ result.op = "set_project_path" /\ result.error # None /\ ~result.ok
    /\ fg.pc = "idle"
    /\ base_path = Root
    /\ ~index_data.is_empty /\ index_data.file_list # <<>>
    /\ file_watcher.is_watching /\ file_watcher.observer = "running"

(***************************************************************************)
(* C14.  When a full rebuild completes, and when the callback of a        *)
(* watcher event returns, the snapshot in the cache file is the index as  *)
(* it is in memory at that moment; and whenever both threads are at rest  *)
(* and a snapshot was written, the snapshot is the index in memory.       *)
(***************************************************************************)
C14_CacheIsIndex(c, idx) == c.written /\ c.data = idx

RECURSIVE FindColon(_, _)
FindColon(line, i) ==
    IF i > Len(line) THEN 0
    ELSE IF SubSeq(line, i, i) = ":" THEN i
    ELSE FindColon(line, i + 1)

\* int(text) for a text of decimal digits; -1 stands for ValueError
RECURSIVE ParseInt(_, _)
ParseInt(text, value) ==
    LET digits == "0123456789"
        d == {n \in 0..9 : SubSeq(digits, n + 1, n + 1) = SubSeq(text, 1, 1)}
    IN  IF Len(text) = 0 THEN value
        ELSE IF d = {} THEN -1
        ELSE ParseInt(SubSeq(text, 2, Len(text)),
                      10 * Max(value, 0) + CHOOSE n \in d : TRUE)

\* _parse_search_output: file:line:content lines become SearchResults, a
\* line with fewer than two colons or a line number that is no int is dropped
RECURSIVE ParseSearchOutput(_, _)
ParseSearchOutput(lines, i) ==
    IF i > Len(lines) THEN <<>>
    ELSE LET line == lines[i]
             c1 == FindColon(line, 1)
             c2 == IF c1 = 0 THEN 0 ELSE FindColon(line, c1 + 1)
             line_number == IF c2 = 0 THEN -1
                            ELSE ParseInt(SubSeq(line, c1 + 1, c2 - 1), -1)
         IN  (IF line_number = -1 THEN <<>>
              ELSE <<[file |-> SubSeq(line, 1, c1 - 1),
                      line_number |-> line_number,
                      line_content |-> SubSeq(line, c2 + 1, Len(line)),
                      context_before |-> <<>>, context_after |-> <<>>]>>)
             \o ParseSearchOutput(lines, i + 1)

\* _execute_search: subprocess.run(check=True); exit code 1 is no match, any
\* other non-zero exit raises RuntimeError with str(CalledProcessError)
ExecuteSearch(cmd, returncode, stdout) ==
    IF returncode = 0
    THEN [raised |-> FALSE, message |-> "",
          results |-> ParseSearchOutput(stdout, 1)]
    ELSE IF returncode = 1
    THEN [raised |-> FALSE, message |-> "", results |-> <<>>]
    ELSE [raised |-> TRUE,
          message |-> "Search command failed: Command '" \o cmd
                      \o "' returned non-zero exit status "
                      \o SubSeq("0123456789", returncode + 1, returncode + 1)
                      \o ".",
          results |-> <<>>]

\* search_code: the dict it returns, as a record with exactly its keys
SearchCode(base, tool, returncode, stdout) ==
    LET run == ExecuteSearch(tool, returncode, stdout)
    IN  IF base = None THEN [error |-> "No project path set"]
        ELSE IF run.raised THEN [error |-> "Search failed: " \o run.message]
        ELSE [success |-> TRUE, results |-> run.results,
              total_matches |-> Len(run.results), search_tool |-> tool]

\* what the search program may print on its standard output
SearchOutputs ==
    {<<>>, <<"A.java:3:ship();">>, <<"A.java:3:ship();", "b.ts:12:ship()">>,
     <<"Binary file x.class matches", "A.java:x:y", "a:7">>}

\* a search is about to run: any exit code, output and error text
PxSearchInit ==
    /\ disk = [rel \in ProjectFiles |-> Absent]
    /\ Constructed
    /\ px \in [phase : {"search"}, base : {None, Root}, returncode : 0..3,
               stdout : SearchOutputs,
               stderr : {"", "grep: Unmatched [, [^, [:, [., or [="},
               result : {<<>>}]

PxSearchCode ==
    /\ UNCHANGED <<disk, indexer_vars>>
    /\ px.phase = "search"
    /\ px' = [px EXCEPT !.phase = "searched",
                !.result = SearchCode(px.base, "grep", px.returncode,
                                      px.stdout)]

SpecSearch == PxSearchInit /\ [][PxSearchCode]_vars

(***************************************************************************)
(* C15.  search_code tells no match from failure: with exit code 1 the    *)
(* result is a success with total_matches 0 and no error; with any other  *)
(* non-zero exit code it is an error that carries the standard error of   *)
(* the search program and has no success flag.                            *)
(***************************************************************************)
C15_NoMatchIsSuccess ==
    (px.phase = "searched" /\ px.base # None /\ px.returncode = 1)
    => /\ DOMAIN px.result
            = {"success", "results", "total_matches", "search_tool"}
       /\ px.result.success /\ px.result.total_matches = 0
       /\ px.result.results = <<>>

C15_FailureCarriesStderr ==
    /\ C15_NoMatchIsSuccess
    /\ (px.phase = "searched" /\ px.base # None /\ px.returncode > 1)
       => /\ DOMAIN px.result = {"error"}
          /\ StrContains(px.result.error, px.stderr)

(***************************************************************************)
(* CodeIndexer.find_files over the file_list of an index.                 *)
(***************************************************************************)
MaxFileList == 3

\* fnmatch.fnmatchcase for patterns of literals, '?' and '*' ('*' and '?'
\* also match a '/'); on POSIX fnmatch.fnmatch does not fold case
RECURSIVE Fnmatch(_, _)
Fnmatch(name, pat) ==
    IF Len(pat) = 0 THEN Len(name) = 0
    ELSE IF SubSeq(pat, 1, 1) = "*"
    THEN \/ Fnmatch(name, SubSeq(pat, 2, Len(pat)))
         \/ Len(name) > 0 /\ Fnmatch(SubSeq(name, 2, Len(name)), pat)
    ELSE /\ Len(name) > 0
         /\ SubSeq(pat, 1, 1) \in {"?", SubSeq(name, 1, 1)}
         /\ Fnmatch(SubSeq(name, 2, Len(name)), SubSeq(pat, 2, Len(pat)))

\* a < b for str: the first differing character decides by code point, a
\* proper prefix comes first
RECURSIVE StrLess(_, _)
StrLess(a, b) ==
    LET code_points == "./ABCDEFGHIJKLMNOPQRSTUVWXYZ_abcdefghijklmnopqrstuvwxyz"
        Ord(c) == CHOOSE n \in 1..Len(code_points) :
                      SubSeq(code_points, n, n) = c
    IN  IF Len(b) = 0 THEN FALSE
        ELSE IF Len(a) = 0 THEN TRUE
        ELSE IF SubSeq(a, 1, 1) = SubSeq(b, 1, 1)
        THEN StrLess(SubSeq(a, 2, Len(a)), SubSeq(b, 2, Len(b)))
        ELSE Ord(SubSeq(a, 1, 1)) < Ord(SubSeq(b, 1, 1))

\* Sorted for a find_files that returns the matches in file_list order
Unsorted(list) == list

\* sorted(list) for a list of str
RECURSIVE Sorted(_)
Sorted(list) ==
    IF Len(list) = 0 THEN <<>>
    ELSE LET least == CHOOSE i \in DOMAIN list :
                          \A j \in DOMAIN list : ~StrLess(list[j], list[i])
         IN  <<list[least]>>
             \o Sorted(SubSeq(list, 1, least - 1)
                       \o SubSeq(list, least + 1, Len(list)))

\* find_files(pattern)
FindFiles(idx, pattern) ==
    IF idx.is_empty THEN <<>>
    ELSE Sorted(SelectSeq(idx.file_list,
                    LAMBDA file_path : \/ Fnmatch(file_path, pattern)
                                       \/ Fnmatch(Basename(file_path), pattern)))

\* the relative paths an index may list and the patterns asked for
ListedPaths == {"A.java", "b.ts", "src/B.java", "src/a.ts"}
FilePatterns == {"*.java", "*.ts", "src/*", "B.java", "?.ts", "a.java", "*"}

\* an index as construction leaves it, or a built one whose file_list is
\* any list of paths (walk order is arbitrary, and _index_file appends a
\* path again each time it indexes the file)
PxFilesInit ==
    /\ disk = [rel \in ProjectFiles |-> Absent]
    /\ Constructed
    /\ \E n \in 0..MaxFileList :
         px \in [phase : {"listed"}, pattern : FilePatterns, result : {<<>>},
                 index : {NoIndexData}
                         \cup {[FreshIndexData EXCEPT !.file_list = list] :
                                  list \in [1..n -> ListedPaths]}]

PxFindFiles ==
    /\ UNCHANGED <<disk, indexer_vars>>
    /\ px.phase = "listed"
    /\ px' = [px EXCEPT !.phase = "found",
                !.result = FindFiles(px.index, px.pattern)]

SpecFiles == PxFilesInit /\ [][PxFindFiles]_vars

(***************************************************************************)
(* C16.  find_files(pattern) returns, in ascending order, exactly the     *)
(* listed paths whose full relative path or whose basename matches the    *)
(* pattern; on an index that was never built, and on one that lists no    *)
(* file, it returns the empty list.                                       *)
(***************************************************************************)
\* the paths in ascending order of str
C16_Ascending == <<"A.java", "b.ts", "src/B.java", "src/a.ts">>

\* which paths each pattern matches, by full path or by basename
C16_Matching ==
    [pattern \in FilePatterns |->
        CASE pattern = "*.java" -> {"A.java", "src/B.java"}
          [] pattern = "*.ts" -> {"b.ts", "src/a.ts"}
          [] pattern = "src/*" -> {"src/B.java", "src/a.ts"}
          [] pattern = "B.java" -> {"src/B.java"}
          [] pattern = "?.ts" -> {"b.ts", "src/a.ts"}
          [] pattern = "a.java" -> {}
          [] pattern = "*" -> ListedPaths]

C16_FindFilesSortedMatches ==
    px.phase = "found" =>
        LET Rank(path) == CHOOSE n \in 1..4 : C16_Ascending[n] = path
            listed == ListSet(px.index.file_list)
        IN  /\ ListSet(px.result) = (listed \cap C16_Matching[px.pattern])
            /\ ListSet(px.result) =
                  {path \in listed : \/ Fnmatch(path, px.pattern)
                                     \/ Fnmatch(Basename(path), px.pattern)}
            /\ \A i, j \in DOMAIN px.result :
                  i < j => Rank(px.result[i]) <= Rank(px.result[j])
            /\ (px.index.is_empty \/ px.index.file_list = <<>>)
                  => px.result = <<>>

\* a basename-only match and a full-path match, listed in descending order
\* and returned in ascending order
C16_Witness ==
    /\ px.phase = "found" /\ px.pattern = "?.ts"
    /\ px.index.file_list = <<"src/a.ts", "b.ts", "A.java">>
    /\ px.result = <<"b.ts", "src/a.ts">>

(***************************************************************************)
(* find_symbol_usage of ai_agent_tools.py over index_data["symbols"].      *)
(***************************************************************************)
\* s.lower() for ASCII text
RECURSIVE Lower(_)
Lower(s) ==
    LET upper == "ABCDEFGHIJKLMNOPQRSTUVWXYZ"
        lower == "abcdefghijklmnopqrstuvwxyz"
        at == {n \in 1..26 : SubSeq(upper, n, n) = SubSeq(s, 1, 1)}
    IN  IF Len(s) = 0 THEN s
        ELSE (IF at = {} THEN SubSeq(s, 1, 1)
              ELSE SubSeq(lower, CHOOSE n \in at : TRUE, CHOOSE n \in at : TRUE))
             \o Lower(SubSeq(s, 2, Len(s)))

\* UsageNameMatches with the .lower() calls of line 215 left out
UsageNameMatchesCased(name, symbol_name) ==
    \/ StrContains(name, symbol_name)
    \/ EndsWith(name, "." \o symbol_name)
    \/ name = symbol_name

\* the test find_symbol_usage applies to each symbol name
UsageNameMatches(name, symbol_name) ==
    \/ StrContains(Lower(name), Lower(symbol_name))
    \/ EndsWith(name, "." \o symbol_name)
    \/ name = symbol_name

\* find_symbol_usage(symbol_name, symbol_type) on a built index; a match is
\* dict(symbol_info) with its symbol_id and symbol_name
FindSymbolUsage(symbols, symbol_name, symbol_type) ==
    LET hits == SelectSeq(symbols, LAMBDA e :
                    /\ UsageNameMatches(SymbolName(e.k), symbol_name)
                    /\ (symbol_type = None \/ e.v.type = symbol_type))
        matches == [i \in DOMAIN hits |->
                       [symbol_id |-> hits[i].k,
                        symbol_name |-> SymbolName(hits[i].k),
                        info |-> hits[i].v]]
    IN  [success |-> TRUE, symbol_name |-> symbol_name,
         matches |-> matches, total_matches |-> Len(matches)]

\* class Order { void ship(){} void shipOrder(){ ship(); } }
ShipAndShipOrder ==
    <<[name |-> "ship", calls |-> <<>>],
      [name |-> "shipOrder", calls |-> <<"ship">>]>>

\* symbols of an index built from Order.java, with or without a script
\* that declares function order(){}
UsageIndexes ==
    {DUpdate(DUpdate(EmptyDict, JavaParseFile(OrderPath, OrderSource(desc)).symbols),
             IF script
             THEN TypeScriptParseFile("/proj/shop.ts",
                      Text(JProgram(<<TFunction("order", <<>>, 1)>>), 1)).symbols
             ELSE EmptyDict) :
        desc \in {<<>>, ShipThenConfirm, ShipAndShipOrder}, script \in BOOLEAN}

PxUsageInit ==
    /\ disk = [rel \in ProjectFiles |-> Absent]
    /\ Constructed
    /\ px \in [phase : {"indexed"}, symbols : UsageIndexes,
               query : {"Order", "order", "ship", "SHIP", "shipOrder",
                        "Order.ship", "pay"},
               kind : {None, "class", "method", "function"},
               result : {<<>>}]

PxFindSymbolUsage ==
    /\ UNCHANGED <<disk, indexer_vars>>
    /\ px.phase = "indexed"
    /\ px' = [px EXCEPT !.phase = "used",
                !.result = FindSymbolUsage(px.symbols, px.query, px.kind)]

SpecUsage == PxUsageInit /\ [][PxFindSymbolUsage]_vars

(***************************************************************************)
(* C17.  find_symbol_usage(name, kind) returns exactly the symbols whose  *)
(* qualified name equals name, ends with .name or contains name whatever  *)
(* the letter case, only those of the given kind when a kind is given,    *)
(* and total_matches is the number of matches; name Order matches the     *)
(* class Order and the method shipOrder.                                  *)
(***************************************************************************)
C17_Ids(matches) == {matches[i].symbol_id : i \in DOMAIN matches}

C17_UsageMatchesRule ==
    px.phase = "used" =>
        LET r == px.result
            Named(e) == LET name == SymbolName(e.k)
                        IN  \/ name = px.query
                            \/ EndsWith(name, "." \o px.query)
                            \/ StrContains(Lower(name), Lower(px.query))
            expected == SelectSeq(px.symbols, LAMBDA e :
                            /\ Named(e)
                            /\ (px.kind = None \/ e.v.type = px.kind))
        IN  /\ r.success /\ r.total_matches = Len(r.matches)
            /\ Len(r.matches) = Len(expected)
            /\ \A i \in DOMAIN expected :
                  /\ r.matches[i].symbol_id = expected[i].k
                  /\ r.matches[i].info = expected[i].v
            /\ (px.query \in {"Order", "order"} /\ px.kind = None)
               => C17_Ids(r.matches)
                    = {e.k : e \in ListSet(px.symbols)}
            /\ (px.query = "SHIP" /\ px.kind = "method")
               => C17_Ids(r.matches)
                    = {id \in DKeys(px.symbols) :
                         SymbolName(id) \in {"Order.ship", "Order.shipOrder"}}

\* Order asked of class Order with methods ship and shipOrder
C17_Witness ==
    /\ px.phase = "used" /\ px.query = "Order" /\ px.kind = None
    /\ C17_Ids(px.result.matches)
         = {CreateSymbolId(OrderPath, "Order"),
            CreateSymbolId(OrderPath, "Order.ship"),
            CreateSymbolId(OrderPath, "Order.shipOrder"),
            CreateSymbolId("/proj/shop.ts", "order")}
    /\ px.result.total_matches = 4

(***************************************************************************)
(* C18.  find_functions_calling(name) resolves its target by the matching *)
(* rule of find_symbol_usage: for every index and every name, in any      *)
(* letter case, it finds a target exactly when find_symbol_usage(name)    *)
(* has a match, the target is the first of those matches, and the callers *)
(* returned are the symbols listed in the target's called_by.             *)
(***************************************************************************)
C18_SameRuleAsUsage ==
    px.phase = "asked" =>
        LET usage == FindSymbolUsage(px.symbols, px.query, None)
            found == "target_symbol_id" \in DOMAIN px.result
        IN  /\ found <=> usage.total_matches > 0
            /\ found =>
                 /\ px.result.target_symbol_id = usage.matches[1].symbol_id
                 /\ px.callers =
                      SelectSeq(usage.matches[1].info.called_by,
                                LAMBDA c : DHas(px.symbols, c))

(***************************************************************************)
(* C19.  Every result of find_functions_calling on a built index is a     *)
(* success that carries callers and total_callers, total_callers being    *)
(* the number of callers; when no symbol matches, callers is empty,       *)
(* total_callers is 0 and there is a message.                             *)
(***************************************************************************)
C19_CarriesTotalCallers ==
    px.phase = "asked" =>
        /\ "success" \in DOMAIN px.result /\ px.result.success
        /\ {"callers", "total_callers"} \subseteq DOMAIN px.result
        /\ px.result.total_callers = Len(px.result.callers)
        /\ "target_symbol_id" \notin DOMAIN px.result
           => /\ px.result.callers = <<>>
              /\ "message" \in DOMAIN px.result

(***************************************************************************)
(* One FileWatcher under any sequence of start(), stop() and of the       *)
(* shutdown() of the CodeIndexer that holds it.  scheduled counts the     *)
(* observer.schedule calls, started the times the observer thread was     *)
(* started, stopped records observer.stop(); raised tells whether the     *)
(* last call raised.                                                      *)
(***************************************************************************)
MaxWatcherCalls == 5

\* FileWatcher.start with the test of is_watching left out
FileWatcherStartUnguarded(w) ==
    IF w.started > 0 \/ w.stopped
    THEN [w EXCEPT !.scheduled = @ + 1, !.raised = TRUE]
    ELSE [w EXCEPT !.scheduled = @ + 1, !.started = @ + 1,
                   !.is_watching = TRUE, !.raised = FALSE]

\* FileWatcher.start; a thread can be started once only, so observer.start()
\* on an observer that was started before raises RuntimeError
FileWatcherStart(w) ==
    IF w.is_watching THEN [w EXCEPT !.raised = FALSE]
    ELSE IF w.started > 0 \/ w.stopped
    THEN [w EXCEPT !.scheduled = @ + 1, !.raised = TRUE]
    ELSE [w EXCEPT !.scheduled = @ + 1, !.started = @ + 1,
                   !.is_watching = TRUE, !.raised = FALSE]

\* FileWatcher.stop
FileWatcherStop(w) ==
    IF w.is_watching
    THEN [w EXCEPT !.stopped = TRUE, !.is_watching = FALSE, !.raised = FALSE]
    ELSE [w EXCEPT !.raised = FALSE]

\* FileWatcher.__init__, held by a CodeIndexer
PxWatcherInit ==
    /\ disk = [rel \in ProjectFiles |-> Absent]
    /\ Constructed
    /\ px = [phase |-> "watcher", calls |-> <<>>,
             w |-> [is_watching |-> FALSE, scheduled |-> 0, started |-> 0,
                    stopped |-> FALSE, raised |-> FALSE]]

PxStart ==
    /\ UNCHANGED <<disk, indexer_vars>>
    /\ px.phase = "watcher" /\ Len(px.calls) < MaxWatcherCalls
    /\ px' = [px EXCEPT !.calls = Append(@, "start"),
                        !.w = FileWatcherStart(@)]

PxStop ==
    /\ UNCHANGED <<disk, indexer_vars>>
    /\ px.phase = "watcher" /\ Len(px.calls) < MaxWatcherCalls
    /\ px' = [px EXCEPT !.calls = Append(@, "stop"),
                        !.w = FileWatcherStop(@)]

\* CodeIndexer.shutdown: if self.file_watcher: self.file_watcher.stop()
PxShutdown ==
    /\ UNCHANGED <<disk, indexer_vars>>
    /\ px.phase = "watcher" /\ Len(px.calls) < MaxWatcherCalls
    /\ px' = [px EXCEPT !.calls = Append(@, "shutdown"),
                        !.w = FileWatcherStop(@)]

PxWatcherNext == PxStart \/ PxStop \/ PxShutdown

SpecWatcher == PxWatcherInit /\ [][PxWatcherNext]_vars

(***************************************************************************)
(* C20.  A FileWatcher goes Stopped -> Watching -> Stopped: start() while *)
(* watching changes nothing, so the handler is scheduled and the observer *)
(* started at most once; stop() while stopped changes nothing; hence a    *)
(* shutdown() that follows a shutdown() changes nothing, and no stop() or *)
(* shutdown() ever raises.                                                *)
(***************************************************************************)
\* the calls so far never start the watcher again after stopping it
C20_NotRestarted(calls) ==
    \A i, j \in DOMAIN calls :
        (i < j /\ calls[i] \in {"stop", "shutdown"}) => calls[j] # "start"

C20_StartStopIdempotent ==
    [][LET call == px'.calls[Len(px'.calls)]
       IN  /\ (call = "start" /\ px.w.is_watching) => px'.w = px.w
           /\ (call \in {"stop", "shutdown"} /\ ~px.w.is_watching)
              => px'.w = [px.w EXCEPT !.raised = FALSE]
           /\ (call = "shutdown" /\ Len(px.calls) > 0
                  /\ px.calls[Len(px.calls)] = "shutdown")
              => px'.w = px.w
           /\ call \in {"stop", "shutdown"}
              => (~px'.w.raised /\ ~px'.w.is_watching)
           /\ C20_NotRestarted(px'.calls)
              => (px'.w.scheduled <= 1 /\ ~px'.w.raised)
           /\ px'.w.started <= 1
      ]_vars

\* start, start, then shutdown three times: scheduled and started once,
\* stopped, nothing raised
C20_Witness ==
    /\ px.phase = "watcher"
    /\ px.calls = <<"start", "start", "shutdown", "shutdown", "shutdown">>
    /\ px.w = [is_watching |-> FALSE, scheduled |-> 1, started |-> 1,
               stopped |-> TRUE, raised |-> FALSE]

(***************************************************************************)
(* ContextManager of context_manager.py: add_action with the compression  *)
(* of working memory it triggers.  Importance is kept in tenths; an       *)
(* action's timestamp is the number of the call that added it.            *)
(***************************************************************************)
MaxActions == 4
MaxMemory == 3

\* _calculate_importance, in tenths, for contents without emoji and
\* without 'File ... created successfully'
CalculateImportance(content, action_type, success) ==
    LET base == CASE action_type = "decision" -> 9
                  [] action_type = "reasoning" -> 7
                  [] action_type = "tool_call" -> 5
                  [] action_type = "observation" -> 4
                  [] action_type = "error" -> 8
                  [] OTHER -> 5
        failed == IF success THEN 0 ELSE 3
        text == Lower(content)
        alarm == IF StrContains(text, "error:") \/ StrContains(text, "exception:")
                 THEN 9 ELSE 0
        routine == IF StrContains(text, "command completed") THEN 2 ELSE 0
        sum == base + failed + alarm - routine
    IN  IF sum > 10 THEN 10 ELSE Max(1, sum)

\* int(len(content.split()) * 1.3) for words separated by single blanks
TokenCount(content) ==
    (13 * (Cardinality({i \in 1..Len(content) : SubSeq(content, i, i) = " "})
           + 1)) \div 10

\* sum(action.token_count for action in working_memory)
RECURSIVE CurrentTokens(_)
CurrentTokens(working_memory) ==
    IF working_memory = <<>> THEN 0
    ELSE Head(working_memory).token_count + CurrentTokens(Tail(working_memory))

\* ShouldCompress with the test of memory_ratio left out
ShouldCompressOnTokens(cm) ==
    10 * CurrentTokens(cm.working_memory) > 7 * cm.max_context_tokens

\* _should_compress: token_ratio > 0.7 or memory_ratio > 0.8
ShouldCompress(cm) ==
    \/ 10 * CurrentTokens(cm.working_memory) > 7 * cm.max_context_tokens
    \/ 10 * Len(cm.working_memory) > 8 * cm.max_working_memory

\* for action in actions: append it unless it is among the kept already,
\* by the hash of its content (by_content) or by equality of the records
RECURSIVE AppendUnseen(_, _, _)
AppendUnseen(kept, actions, by_content) ==
    IF actions = <<>> THEN kept
    ELSE LET a == Head(actions)
             seen == IF by_content
                     THEN \E i \in DOMAIN kept : kept[i].content = a.content
                     ELSE InList(a, kept)
         IN  AppendUnseen(IF seen THEN kept ELSE Append(kept, a),
                          Tail(actions), by_content)

\* _compress_working_memory: the critical actions, one per content, then
\* the last five actions not yet kept; of these the last max_working_memory
CompressWorkingMemory(cm) ==
    LET memory == cm.working_memory
        critical_actions == SelectSeq(memory, LAMBDA a : a.importance > 7)
        recent_actions == SubSeq(memory, Max(1, Len(memory) - 4), Len(memory))
        preserved_actions ==
            AppendUnseen(AppendUnseen(<<>>, critical_actions, TRUE),
                         recent_actions, FALSE)
        first == Max(1, Len(preserved_actions) - cm.max_working_memory + 1)
    IN  [cm EXCEPT !.working_memory =
                       SubSeq(preserved_actions, first, Len(preserved_actions)),
                   !.compression_count = @ + 1]

\* add_action(action_type, content, success)
AddAction(cm, action_type, content, success) ==
    LET action == [timestamp |-> cm.total_actions + 1,
                   action_type |-> action_type, content |-> content,
                   success |-> success, token_count |-> TokenCount(content),
                   importance |-> CalculateImportance(content, action_type,
                                                      success)]
        added == [cm EXCEPT !.working_memory = Append(@, action),
                            !.total_actions = @ + 1]
    IN  IF ShouldCompress(added) THEN CompressWorkingMemory(added) ELSE added

\* the calls made: (action_type, content, success)
ActionInputs ==
    {<<"decision", "use the cache", TRUE>>,
     <<"tool_call", "ls", TRUE>>,
     <<"tool_call", "Error: permission denied on the build directory", TRUE>>,
     <<"observation", "nothing found", FALSE>>}

\* ContextManager(max_working_memory, max_context_tokens)
PxContextInit ==
    /\ disk = [rel \in ProjectFiles |-> Absent]
    /\ Constructed
    /\ px \in [phase : {"context"},
               cm : [max_working_memory : 1..MaxMemory,
                     max_context_tokens : {10, 8000},
                     working_memory : {<<>>}, total_actions : {0},
                     compression_count : {0}]]

PxAddAction ==
    /\ UNCHANGED <<disk, indexer_vars>>
    /\ px.phase = "context"
    /\ px.cm.total_actions < MaxActions
    /\ \E input \in ActionInputs :
         px' = [px EXCEPT !.cm = AddAction(@, input[1], input[2], input[3])]

SpecContext == PxContextInit /\ [][PxAddAction]_vars

(***************************************************************************)
(* C21.  When add_action returns, working memory holds at most            *)
(* max_working_memory actions, for every sequence of actions and every    *)
(* max_working_memory >= 1; a call that would take it past the bound      *)
(* runs a compression.                                                    *)
(***************************************************************************)
C21_WorkingMemoryBounded ==
    [][px.phase = "context" =>
         /\ Len(px'.cm.working_memory) <= px'.cm.max_working_memory
         /\ Len(px.cm.working_memory) + 1 > px.cm.max_working_memory
            => px'.cm.compression_count = px.cm.compression_count + 1
      ]_vars

\* a fourth action was added to a memory of at most three, with the token
\* limit far away: the memory was compressed and holds three actions
C21_Witness ==
    /\ px.phase = "context"
    /\ px.cm.max_working_memory = 3 /\ px.cm.max_context_tokens = 8000
    /\ px.cm.total_actions = 4
    /\ Len(px.cm.working_memory) = 3
    /\ px.cm.compression_count > 0

C22_HasEdge(symbols, path, scope, callee, caller) ==
    /\ DHas(symbols, CreateSymbolId(path, scope \o callee))
    /\ InList(CreateSymbolId(path, scope \o caller),
              DGet(symbols, CreateSymbolId(path, scope \o callee)).called_by)

\* body i calls callee, which is declared at or before position i
C22_CallsDeclared(desc, i, callee) ==
    /\ \E j \in DOMAIN desc[i].calls : desc[i].calls[j] = callee
    /\ \E k \in 1..i : desc[k].name = callee

C22_ResolvesVisitedOnly ==
    px.phase = "indexed" =>
        \A i \in DOMAIN px.desc :
            LET caller == px.desc[i].name
                last == i = Len(px.desc)
                upto == SubSeq(px.desc, 1, i)
                java == IF last THEN px.symbols
                        ELSE JavaParseFile(OrderPath, OrderSource(upto)).symbols
                script == IF last THEN px.script_symbols
                          ELSE TypeScriptParseFile(ScriptPath,
                                                   ScriptSource(upto)).symbols
            IN  \A callee \in MethodNames :
                /\ C22_CallsDeclared(px.desc, i, callee)
                   => /\ C22_HasEdge(java, OrderPath, "Order.", callee, caller)
                      /\ C22_HasEdge(script, ScriptPath, "", callee, caller)
                /\ (\/ C22_HasEdge(px.symbols, OrderPath, "Order.", callee, caller)
                    \/ C22_HasEdge(px.script_symbols, ScriptPath, "", callee,
                                   caller))
                   => \E n \in DOMAIN px.desc :
                        /\ px.desc[n].name = caller
                        /\ C22_CallsDeclared(px.desc, n, callee)

\* confirm(){ ship(); } ship(){ ship(); }: the recursive call is an edge,
\* the call from confirm, which precedes the declaration of ship, is not
C22_Witness ==
    /\ px.phase = "indexed"
    /\ px.desc = <<[name |-> "confirm", calls |-> <<"ship">>],
                   [name |-> "ship", calls |-> <<"ship">>]>>
    /\ DGet(px.symbols, CreateSymbolId(OrderPath, "Order.ship")).called_by
         = <<CreateSymbolId(OrderPath, "Order.ship")>>
    /\ DGet(px.script_symbols, CreateSymbolId(ScriptPath, "ship")).called_by
         = <<CreateSymbolId(ScriptPath, "ship")>>

(***************************************************************************)
(* C23.  Handling a deleted event for a file leaves the symbols map as it *)
(* was: no step of the callback on its deleted branch changes symbols,    *)
(* and when the event has been handled every symbol of the file is still  *)
(* returned by find_symbol_usage and is still a target that               *)
(* find_functions_calling finds.  Only the clearing step of a full        *)
(* rebuild takes a symbol out of the map.                                 *)
(***************************************************************************)
\* the observer thread takes a step of the deleted branch of _on_file_change
C23_DeletedStep == wt.event_type = "deleted" /\ wt' # wt

C23_StillReturned(symbols, path) ==
    \A i \in DOMAIN symbols :
        symbols[i].v.file = path =>
            LET name == SymbolName(symbols[i].k)
                usage == FindSymbolUsage(symbols, name, None)
                calling == FindFunctionsCalling(symbols, name)
            IN  /\ \E m \in DOMAIN usage.matches :
                     usage.matches[m].symbol_id = symbols[i].k
                /\ "target_symbol_id" \in DOMAIN calling
                /\ SymbolName(calling.target_symbol_id) = name

C23_DeletedKeepsSymbols ==
    [][/\ C23_DeletedStep
          => /\ index_data'.symbols = index_data.symbols
             /\ wt'.pc = "idle"
                => C23_StillReturned(index_data'.symbols, wt.path)
       /\ (\E i \in DOMAIN index_data.symbols :
              ~DHas(index_data'.symbols, index_data.symbols[i].k))
          => fg.pc = "build_clear"
      ]_vars

\* A.java has been deleted and the event handled: its record is gone, its
\* symbols are still in the map and still found
C23_Witness ==
    /\ wt.pc = "idle" /\ file_watcher.queue = <<>>
    /\ disk["A.java"] = Absent
    /\ ~DHas(index_data.files, "A.java")
    /\ FileSymbols(index_data, Root, "A.java") # <<>>
    /\ C23_StillReturned(index_data.symbols, AbsPath[Root]["A.java"])

(***************************************************************************)
(* C24.  In the index of the two files, each symbol's called_by holds no  *)
(* SymbolId twice, however many call sites there are, and every entry is  *)
(* the SymbolId of a method or function symbol of the index that is       *)
(* declared in the file of the symbol holding it.                         *)
(***************************************************************************)
\* the index after _index_file of the class file and of the script
C24_Index == DUpdate(px.symbols, px.script_symbols)

C24_NoDuplicates(called_by) ==
    \A i, j \in DOMAIN called_by : called_by[i] = called_by[j] => i = j

C24_CalledByWellFormed ==
    px.phase = "indexed" =>
        \A n \in DOMAIN C24_Index :
            LET info == C24_Index[n].v
            IN  /\ C24_NoDuplicates(info.called_by)
                /\ \A i \in DOMAIN info.called_by :
                      /\ DHas(C24_Index, info.called_by[i])
                      /\ DGet(C24_Index, info.called_by[i]).type
                            \in {"method", "function"}
                      /\ DGet(C24_Index, info.called_by[i]).file = info.file

\* ship(){} confirm(){ ship(); ship(); }: two call sites, one entry, in the
\* class and in the script
C24_Witness ==
    /\ px.phase = "indexed"
    /\ px.desc = <<[name |-> "ship", calls |-> <<>>],
                   [name |-> "confirm", calls |-> <<"ship", "ship">>]>>
    /\ DGet(C24_Index, CreateSymbolId(OrderPath, "Order.ship")).called_by
         = <<CreateSymbolId(OrderPath, "Order.confirm")>>
    /\ DGet(C24_Index, CreateSymbolId(ScriptPath, "ship")).called_by
         = <<CreateSymbolId(ScriptPath, "confirm")>>

(***************************************************************************)
(* C25.  At most one FileWatcher of a CodeIndexer is watching at a time:  *)
(* while set_project_path rebuilds, the previous watcher is stopped and   *)
(* its observer thread has ended; the watcher that set_project_path       *)
(* replaces is a stopped one; the call returns with one watcher watching, *)
(* rooted at the new base path; and a watcher only passes from not        *)
(* watching to watching by being created anew, never by a second start.   *)
(***************************************************************************)
\* the watcher CodeIndexer.file_watcher refers to is not watching and its
\* observer thread, if it ever ran, has ended
C25_Stopped(watcher) ==
    ~watcher.is_watching /\ watcher.observer \in {"none", "dead"}

C25_OneWatcher ==
    [][/\ (fg.op = "set_project_path" /\ fg.pc \notin {"spp_stop", "spp_join"}
           /\ fg'.op = "set_project_path" /\ fg'.pc # "spp_return")
          => C25_Stopped(file_watcher')
       /\ file_watcher'.exists /\ file_watcher' # file_watcher
           /\ (file_watcher'.is_watching /\ ~file_watcher.is_watching)
          => /\ fg.pc = "spp_start"
             /\ C25_Stopped(file_watcher)
             /\ file_watcher' = StartedWatcher(base_path')
       /\ (fg.pc = "spp_return" /\ fg'.pc = "idle")
          => /\ result'.ok
             /\ file_watcher'.is_watching
             /\ file_watcher'.observer = "running"
             /\ file_watcher'.base_path = base_path'
      ]_vars

\* a second set_project_path has stopped the previous watcher, rebuilt, and
\* is about to create the next one
C25_Witness ==
    /\ fg.op = "set_project_path" /\ fg.pc = "spp_start"
    /\ file_watcher.exists /\ file_watcher.observer = "dead"
    /\ ~file_watcher.is_watching

(***************************************************************************)
(* C26.  Events are handled one at a time in the order they were          *)
(* delivered, none reordered and none merged with another: every change   *)
(* of a watched file queues an event of its own behind those waiting;     *)
(* the observer thread starts a callback only when the previous one has   *)
(* returned, and for the oldest waiting event; every created or modified  *)
(* event for a file that exists and can be parsed re-parses the file as   *)
(* it is then; and the FileRecord stored by a callback is the one of its  *)
(* own re-parse, so that after k events it is the one of the last.        *)
(***************************************************************************)
C26_InOrderNoCoalescing ==
    [][/\ \A rel \in WatcherAccepts \cap DOMAIN disk :
            (disk'[rel] # disk[rel] /\ file_watcher.observer = "running")
            => /\ Len(file_watcher'.queue) = Len(file_watcher.queue) + 1
               /\ SubSeq(file_watcher'.queue, 1, Len(file_watcher.queue))
                     = file_watcher.queue
               /\ file_watcher'.queue[Len(file_watcher'.queue)].src_path
                     = AbsPath[Root][rel]
       /\ (wt.pc = "idle" /\ wt'.pc # "idle")
          => /\ file_watcher.queue # <<>>
             /\ file_watcher'.queue = Tail(file_watcher.queue)
             /\ wt'.path = Head(file_watcher.queue).src_path
             /\ wt'.event_type = Head(file_watcher.queue).event_type
             /\ LET rel == RelPathOf[base_path][wt'.path]
                IN  (wt'.event_type # "deleted" /\ IndexFileSucceeds(rel))
                    => /\ wt'.pc = "if_files"
                       /\ wt'.parsed = Parsed[rel][disk[rel]]
       /\ (wt.pc # "idle" /\ file_watcher'.queue # file_watcher.queue)
          => \/ file_watcher'.queue = <<>>
             \/ /\ Len(file_watcher'.queue) = Len(file_watcher.queue) + 1
                /\ wt' = wt
       /\ (wt.pc = "if_files" /\ wt'.pc = "if_symbols")
          => DGet(index_data'.files, RelPathOf[base_path][wt.path])
                = wt.parsed.file_info
      ]_vars

\* A.java was created and then modified: the callback for the created event
\* has re-parsed it while the modified event for the same file waits
C26_Witness ==
    /\ wt.pc = "if_files" /\ wt.event_type = "created"
    /\ wt.path = AbsPath[Root]["A.java"]
    /\ file_watcher.queue
         = <<[src_path |-> AbsPath[Root]["A.java"], event_type |-> "modified"]>>

(***************************************************************************)
(* The queries of CodeIndexer and of ai_agent_tools, each returning the    *)
(* dict of the source as a record with exactly its keys, and a foreground  *)
(* thread that asks them of an indexer in a state its operations lead to.  *)
(***************************************************************************)
\* current = structure; for part in parts[:-1]: ...; current[filename] = "file"
RECURSIVE StructureInsert(_, _)
StructureInsert(current, parts) ==
    IF Len(parts) = 1 THEN DPut(current, parts[1], "file")
    ELSE DPut(current, parts[1],
              StructureInsert(IF DHas(current, parts[1])
                              THEN DGet(current, parts[1]) ELSE EmptyDict,
                              Tail(parts)))

RECURSIVE StructureOf(_, _, _)
StructureOf(files, i, structure) ==
    IF i > Len(files) THEN structure
    ELSE StructureOf(files, i + 1,
                     StructureInsert(structure, PathParts(files[i])))

\* get_project_structure()
GetProjectStructure(idx) ==
    IF idx.is_empty THEN [error |-> "No project indexed"]
    ELSE [success |-> TRUE,
          structure |-> StructureOf(idx.file_list, 1, EmptyDict),
          total_files |-> Len(idx.file_list)]

\* counts[key(v)] = counts.get(key(v), 0) + 1 over the values of a dict;
\* by_type picks "type" (symbols), otherwise "language" (files)
RECURSIVE CountBy(_, _, _, _)
CountBy(d, by_type, i, counts) ==
    IF i > Len(d) THEN counts
    ELSE LET key == IF by_type THEN d[i].v.type ELSE d[i].v.language
         IN  CountBy(d, by_type, i + 1,
                     DPut(counts, key,
                          (IF DHas(counts, key) THEN DGet(counts, key) ELSE 0)
                            + 1))

RECURSIVE TotalLines(_, _)
TotalLines(files, i) ==
    IF i > Len(files) THEN 0
    ELSE files[i].v.line_count + TotalLines(files, i + 1)

\* the search programs SearchTool found at construction
AvailableTools == <<"grep">>

\* get_statistics()
GetStatistics(idx) ==
    IF idx.is_empty THEN [error |-> "No project indexed"]
    ELSE [success |-> TRUE,
          total_files |-> Len(idx.files),
          total_lines |-> TotalLines(idx.files, 1),
          languages |-> CountBy(idx.files, FALSE, 1, EmptyDict),
          symbols |-> CountBy(idx.symbols, TRUE, 1, EmptyDict),
          search_tools |-> AvailableTools,
          preferred_search_tool |-> "grep"]

\* get_file_imports(file_path)
GetFileImports(idx, base, file_path) ==
    LET rel_path == IF file_path \in AbsPaths
                    THEN RelPathOf[base][file_path] ELSE file_path
    IN  IF idx.is_empty THEN [error |-> "No project indexed"]
        ELSE IF DHas(idx.files, rel_path)
        THEN LET file_info == DGet(idx.files, rel_path)
             IN  [success |-> TRUE, file_path |-> rel_path,
                  imports |-> file_info.imports,
                  exports |-> file_info.exports,
                  package |-> file_info.package,
                  total_imports |-> Len(file_info.imports)]
        ELSE [error |-> "File not found in index: " \o rel_path]

\* _index_file(file_path, rel_path) for a file holding the content named
IndexFile(idx, rel_path, name) ==
    AppendFileList(
        UpdateSymbols(
            StoreFileInfo(idx, rel_path, Parsed[rel_path][name].file_info),
            Parsed[rel_path][name].symbols),
        rel_path)

\* indexes the operations of CodeIndexer lead to: an empty project; one or
\* two files indexed; a file indexed again after a modified event; a file
\* indexed and then deleted
QueryIndexes ==
    LET one == IndexFile(FreshIndexData, "A.java", "JavaV1")
        two == IndexFile(IndexFile(FreshIndexData, "b.ts", "ScriptV1"),
                         "A.java", "JavaV1")
    IN  {FreshIndexData, one, two,
         IndexFile(one, "A.java", "JavaV2"),
         RemoveFromFileList(DeleteFileInfo(two, "A.java"), "A.java")}

QueryPaths == {"A.java", "b.ts", AbsPath[Root]["A.java"], "pay.ts"}

QueryReady == [phase |-> "ready", op |-> None, result |-> <<>>]

Answered(op, value) == [phase |-> "answered", op |-> op, result |-> value]

\* an indexer as constructed, or one with a project set: the index built,
\* the watcher watching or stopped by shutdown
PxQueryInit ==
    /\ disk = [rel \in ProjectFiles |-> Absent]
    /\ changes = 0 /\ disk_stable = TRUE /\ cache = NoCache
    /\ fg = FgIdle /\ wt = WtIdle /\ result = NoResult /\ overlapped = FALSE
    /\ \/ /\ base_path = None
          /\ index_data = NoIndexData
          /\ file_watcher = NoWatcher
       \/ /\ base_path = Root
          /\ index_data \in QueryIndexes
          /\ file_watcher \in {StartedWatcher(Root),
                               StopJoined(StartedWatcher(Root))}
    /\ px = QueryReady

\* QueryFindFiles for a find_files that sorts file_list itself (files.sort())
\* instead of a copy of the matches
QueryFindFilesInPlace ==
    /\ \E pattern \in FilePatterns :
         px' = Answered("find_files", FindFiles(index_data, pattern))
    /\ index_data' = [index_data EXCEPT !.file_list = Sorted(@)]
    /\ UNCHANGED <<disk, changes, disk_stable, base_path, cache, file_watcher,
                   fg, wt, result, overlapped>>

QueryFindFiles ==
    /\ \E pattern \in FilePatterns :
         px' = Answered("find_files", FindFiles(index_data, pattern))
    /\ UNCHANGED <<disk, indexer_vars>>

QueryAnalyseFile ==
    /\ \E file_path \in QueryPaths :
         px' = Answered("analyse_file",
                        AnalyseFile(index_data, base_path, file_path))
    /\ UNCHANGED <<disk, indexer_vars>>

QueryProjectStructure ==
    /\ px' = Answered("get_project_structure", GetProjectStructure(index_data))
    /\ UNCHANGED <<disk, indexer_vars>>

QueryStatistics ==
    /\ px' = Answered("get_statistics", GetStatistics(index_data))
    /\ UNCHANGED <<disk, indexer_vars>>

QuerySymbolUsage ==
    /\ \E symbol_name \in {"A", "m", "pay"} :
       \E symbol_type \in {None, "class", "method"} :
         px' = Answered("find_symbol_usage",
                   IF index_data.is_empty THEN [error |-> "No project indexed"]
                   ELSE FindSymbolUsage(index_data.symbols, symbol_name,
                                        symbol_type))
    /\ UNCHANGED <<disk, indexer_vars>>

QueryFunctionsCalling ==
    /\ \E function_name \in {"A", "m", "pay"} :
         px' = Answered("find_functions_calling",
                   IF index_data.is_empty THEN [error |-> "No project indexed"]
                   ELSE FindFunctionsCalling(index_data.symbols, function_name))
    /\ UNCHANGED <<disk, indexer_vars>>

QueryFileImports ==
    /\ \E file_path \in QueryPaths :
         px' = Answered("get_file_imports",
                        GetFileImports(index_data, base_path, file_path))
    /\ UNCHANGED <<disk, indexer_vars>>

QueryNext ==
    \/ QueryFindFiles
    \/ QueryAnalyseFile
    \/ QueryProjectStructure
    \/ QueryStatistics
    \/ QuerySymbolUsage
    \/ QueryFunctionsCalling
    \/ QueryFileImports

SpecQuery == PxQueryInit /\ [][QueryNext]_vars

(***************************************************************************)
(* C27.  A query (find_files, analyse_file, get_project_structure,        *)
(* get_statistics, find_symbol_usage, find_functions_calling,             *)
(* get_file_imports) leaves files, symbols, file_list, the base path and  *)
(* the watcher as they were, whatever it is asked and whatever it         *)
(* answers.                                                               *)
(***************************************************************************)
C27_QueriesChangeNothing ==
    [][px'.phase = "answered" =>
          /\ index_data'.files = index_data.files
          /\ index_data'.symbols = index_data.symbols
          /\ index_data'.file_list = index_data.file_list
          /\ index_data'.is_empty = index_data.is_empty
          /\ base_path' = base_path
          /\ file_watcher' = file_watcher
      ]_vars

\* find_files("*") has answered b.ts after A.java although file_list holds
\* them the other way round, and file_list still does
C27_Witness ==
    /\ px.phase = "answered" /\ px.op = "find_files"
    /\ px.result = <<"A.java", "b.ts">>
    /\ index_data.file_list = <<"b.ts", "A.java">>
    /\ file_watcher.is_watching

(***************************************************************************)
(* C28.  As claimed: when no call is under way, the watcher is watching   *)
(* and has handled every event delivered to it, the keys of files are     *)
(* exactly the files a full rebuild of the disk as it is would index.     *)
(***************************************************************************)
\* the watcher watches and has nothing left to do, and no call is under way
C28_Settled ==
    /\ fg.pc = "idle" /\ wt.pc = "idle"
    /\ base_path = Root
    /\ file_watcher.is_watching /\ file_watcher.observer = "running"
    /\ file_watcher.queue = <<>>

\* the files _build_index would index now: those its walk lists and
\* _index_file reads and parses without an exception
C28_RebuildWouldIndex ==
    {rel \in WalkListing : IndexFileSucceeds(rel)}

C28_EventuallyConsistent ==
    C28_Settled => DKeys(index_data.files) = C28_RebuildWouldIndex

(***************************************************************************)
(* C29.  As claimed: whenever no call and no callback is under way and a  *)
(* project is indexed, total_files of get_project_structure equals        *)
(* total_files of get_statistics, and find_files returns no path twice.   *)
(***************************************************************************)
C29_CountsAgree ==
    (fg.pc = "idle" /\ wt.pc = "idle" /\ ~index_data.is_empty) =>
        /\ GetProjectStructure(index_data).total_files
             = GetStatistics(index_data).total_files
        /\ \A pattern \in {"*", "*.java"} :
             LET found == FindFiles(index_data, pattern)
             IN  \A i, j \in DOMAIN found : found[i] = found[j] => i = j

====
